---------------------------- MODULE Spec2Model ----------------------------
(***************************************************************************)
(* Formula dependency resolver of model-analysis                           *)
(* (backend/app/services/formula_analyzer.py, class FormulaAnalyzer).      *)
(*                                                                         *)
(* Strings are sequences of one-character strings, so that strip(),        *)
(* lower(), upper(), int(), str() and the regular expressions the code     *)
(* applies to sheet names and cell addresses are computed, not assumed.    *)
(* A formula text is held as the sequence of its lexemes: the leading "=", *)
(* the substrings cell_pattern matches (with the five regex groups), the   *)
(* bracketed external-workbook markers, and the remaining text.            *)
(* Cell values are integers; float(v) keeps the number.                    *)
(*                                                                         *)
(* Spec and LiveSpec are one call of build_dependency_tree; SessionSpec is *)
(* call after call on one analyzer, with get_progressive_dependencies;     *)
(* AnalyzerSpec applies parse_formula, CellReference.__str__,              *)
(* analyze_formula_complexity and get_formula_function to formula texts,   *)
(* with cell_pattern and the external-reference patterns matched           *)
(* character by character; IOSpec follows the two workbook handles of      *)
(* build_dependency_tree and get_cell_value_and_formula.                   *)
(***************************************************************************)
EXTENDS Integers, Sequences, FiniteSets, TLC

\* ------------------------------------------------------------------ bounds
\* Largest max_depth a call is made with.
MaxDepth == 3
\* Last row of the large range S1!C1:C<BigRows> (more cells than the range cap).
BigRows == 51
\* No run of the resolver holds this many frames (see RecursionBounded).
StackCap == 2 * MaxDepth + 3

\* ----------------------------------------------------------------- strings
UpperLetters == <<"A","B","C","D","E","F","G","H","I","J","K","L","M",
                  "N","O","P","Q","R","S","T","U","V","W","X","Y","Z">>
LowerLetters == <<"a","b","c","d","e","f","g","h","i","j","k","l","m",
                  "n","o","p","q","r","s","t","u","v","w","x","y","z">>
Digits == <<"0","1","2","3","4","5","6","7","8","9">>

UpperSet == {UpperLetters[i] : i \in 1..26}
LowerSet == {LowerLetters[i] : i \in 1..26}
DigitSet == {Digits[i] : i \in 1..10}
\* ord(c) - 64 of an upper-case letter, the value of a digit
LetterOrd == [c \in UpperSet |-> CHOOSE i \in 1..26 : UpperLetters[i] = c]
DigitValue == [c \in DigitSet |-> (CHOOSE i \in 1..10 : Digits[i] = c) - 1]
ToUpper == [c \in LowerSet |-> UpperLetters[CHOOSE i \in 1..26 : LowerLetters[i] = c]]
ToLower == [c \in UpperSet |-> LowerLetters[CHOOSE i \in 1..26 : UpperLetters[i] = c]]
IsLetter(c) == c \in UpperSet \cup LowerSet
IsDigit(c) == c \in DigitSet
IsSpace(c) == c = " "

\* str.upper() / str.lower(), one character
UpperChar(c) == IF c \in LowerSet THEN ToUpper[c] ELSE c
LowerChar(c) == IF c \in UpperSet THEN ToLower[c] ELSE c
upper(s) == [i \in 1..Len(s) |-> UpperChar(s[i])]
lower(s) == [i \in 1..Len(s) |-> LowerChar(s[i])]

\* str.strip(): leading and trailing whitespace removed
strip(s) ==
    LET keep == {i \in 1..Len(s) : ~IsSpace(s[i])}
    IN  IF keep = {} THEN <<>>
        ELSE LET lo == CHOOSE i \in keep : \A j \in keep : i <= j
                 hi == CHOOSE i \in keep : \A j \in keep : i >= j
             IN  SubSeq(s, lo, hi)

\* str.strip("'\""): leading and trailing quote characters removed
strip_quotes(s) ==
    LET keep == {i \in 1..Len(s) : s[i] \notin {"'", "\""}}
    IN  IF keep = {} THEN <<>>
        ELSE LET lo == CHOOSE i \in keep : \A j \in keep : i <= j
                 hi == CHOOSE i \in keep : \A j \in keep : i >= j
             IN  SubSeq(s, lo, hi)

\* str.replace('$', '')
remove_dollar(s) == SelectSeq(s, LAMBDA c : c # "$")
\* startswith without the comparison
startswith_any(s, c) == Len(s) > 0
startswith(s, c) == Len(s) > 0 /\ s[1] = c

\* int(s) for a string of decimal digits
RECURSIVE IntOfPrefix(_, _)
IntOfPrefix(s, n) ==
    IF n = 0 THEN 0 ELSE 10 * IntOfPrefix(s, n - 1) + DigitValue[s[n]]
int(s) == IntOfPrefix(s, Len(s))

\* str(n) for n >= 0, as f"{row}" formats it
RECURSIVE str(_)
str(n) == IF n < 10 THEN <<Digits[n + 1]>>
          ELSE str(n \div 10) \o <<Digits[(n % 10) + 1]>>

\* Length of the longest run of letters / of digits of s from position i on
RECURSIVE LetterRun(_, _)
LetterRun(s, i) == IF i <= Len(s) /\ IsLetter(s[i]) THEN 1 + LetterRun(s, i + 1) ELSE 0
RECURSIVE DigitRun(_, _)
DigitRun(s, i) == IF i <= Len(s) /\ IsDigit(s[i]) THEN 1 + DigitRun(s, i + 1) ELSE 0

\* simple_cell_pattern.match(address): ([A-Za-z]+)(\d+) anchored at the start
\* only; <<>> when there is no match, else <<groups>>.
simple_cell_pattern_match(address) ==
    LET nl == LetterRun(address, 1)
        nd == DigitRun(address, nl + 1)
    IN  IF nl >= 1 /\ nd >= 1
        THEN <<[col |-> SubSeq(address, 1, nl), row |-> SubSeq(address, nl + 1, nl + nd)]>>
        ELSE <<>>

RECURSIVE Pow26(_)
Pow26(i) == IF i = 0 THEN 1 ELSE 26 * Pow26(i - 1)

\* _column_letter_to_number: sum((ord(char.upper()) - 64) * 26**i ...reversed)
RECURSIVE SumDigits(_, _)
SumDigits(column_letter, i) ==
    IF i >= Len(column_letter) THEN 0
    ELSE LetterOrd[UpperChar(column_letter[Len(column_letter) - i])] * Pow26(i)
         + SumDigits(column_letter, i + 1)
column_letter_to_number(column_letter) == SumDigits(column_letter, 0)

\* _number_to_column_letter: divmod(column_number - 1, 26) until 0, reversed
\* divmod(column_number, 26) for divmod(column_number - 1, 26)
RECURSIVE number_to_column_letter_from_zero(_)
number_to_column_letter_from_zero(column_number) ==
    IF column_number > 0
    THEN number_to_column_letter_from_zero(column_number \div 26)
         \o <<UpperLetters[(column_number % 26) + 1]>>
    ELSE <<>>
RECURSIVE number_to_column_letter(_)
number_to_column_letter(column_number) ==
    IF column_number > 0
    THEN number_to_column_letter((column_number - 1) \div 26)
         \o <<UpperLetters[((column_number - 1) % 26) + 1]>>
    ELSE <<>>

\* ---------------------------------------------------------------- formulas
\* One lexeme of a formula text.  t = "eq": the leading "="; t = "ref": a
\* substring cell_pattern matches, with its groups (sheet, col, row, ecol,
\* erow; "" when a group did not take part); t = "ext": a bracketed
\* external-workbook marker such as [Other.xlsx]; t = "txt": anything else.
Lexeme(t, sheet, col, row, ecol, erow) ==
    [t |-> t, sheet |-> sheet, col |-> col, row |-> row, ecol |-> ecol, erow |-> erow]
EqLex == Lexeme("eq", <<>>, <<>>, <<>>, <<>>, <<>>)
ExtLex == Lexeme("ext", <<>>, <<>>, <<>>, <<>>, <<>>)
TxtLex == Lexeme("txt", <<>>, <<>>, <<>>, <<>>, <<>>)
CellLex(sheet, col, row) == Lexeme("ref", sheet, col, row, <<>>, <<>>)
RangeLex(sheet, col, row, ecol, erow) == Lexeme("ref", sheet, col, row, ecol, erow)

\* None for an Optional[str] / Optional[FormulaComponent] is the empty
\* sequence; None for range_end_row is NoRow.
None == <<>>
NoRow == -1

\* CellReference built by parse_formula from one regex match
CellReferenceOf(match) ==
    LET sheet_name == IF match.sheet # <<>> THEN strip_quotes(match.sheet) ELSE match.sheet
        is_range == match.ecol # <<>> /\ match.erow # <<>>
    IN  [sheet_name |-> IF sheet_name # <<>> THEN sheet_name ELSE None,
         column |-> remove_dollar(match.col),
         row |-> int(remove_dollar(match.row)),
         is_absolute_column |-> startswith(match.col, "$"),
         is_absolute_row |-> startswith(match.row, "$"),
         is_range |-> is_range,
         range_end_column |-> IF is_range THEN remove_dollar(match.ecol) ELSE None,
         range_end_row |-> IF is_range THEN int(remove_dollar(match.erow)) ELSE NoRow]

\* parse_formula: [] unless the text starts with "=", else one CellReference
\* per match of cell_pattern, in the order findall returns them
parse_formula(formula) ==
    IF formula = <<>> \/ formula[1].t # "eq" THEN <<>>
    ELSE LET matches == SelectSeq(formula, LAMBDA l : l.t = "ref")
         IN  [k \in 1..Len(matches) |-> CellReferenceOf(matches[k])]

\* _has_external_references: the text contains [....xls] or [....xlsx]
has_external_references(formula) == \E k \in 1..Len(formula) : formula[k].t = "ext"

\* ------------------------------------------------------------ formula text
\* A formula as the text it is: a sequence of characters.
\* \w of the regular expressions: letters, digits and the underscore
IsWord(c) == IsLetter(c) \/ IsDigit(c) \/ c = "_"
\* The class ['\w\s] of the sheet group of cell_pattern
IsSheetChar(c) == c = "'" \/ IsWord(c) \/ IsSpace(c)
\* Length of the longest run of [A-Z] / of ['\w\s] of s from position i on
RECURSIVE UpperRun(_, _)
UpperRun(s, i) == IF i <= Len(s) /\ s[i] \in UpperSet THEN 1 + UpperRun(s, i + 1) ELSE 0
RECURSIVE SheetRun(_, _)
SheetRun(s, i) == IF i <= Len(s) /\ IsSheetChar(s[i]) THEN 1 + SheetRun(s, i + 1) ELSE 0
\* 1 when s has character c at position i, else 0
Optional(s, i, c) == IF i <= Len(s) /\ s[i] = c THEN 1 ELSE 0

\* The one element of a set of one element.  The({e(v) : v \in {d}}) reads
\* "e where v is the value of d", as a local variable of the code holds a
\* value once computed.
The(S) == CHOOSE x \in S : TRUE

\* (\$?[A-Z]+)(\$?\d+) matched at position i of s: <<>> when it does not
\* match, else the two groups and the position after the match.  Each
\* quantifier is greedy and no shorter choice can match where the longest
\* fails: what follows a shortened run is a character of the run.
MatchCore(s, i) ==
    The({ The({ The({ The({
        IF nl = 0 \/ nd = 0 THEN <<>>
        ELSE <<[col |-> SubSeq(s, i, i + d1 + nl - 1),
                row |-> SubSeq(s, i + d1 + nl, i + d1 + nl + d2 + nd - 1),
                end |-> i + d1 + nl + d2 + nd]>>
        : nd \in {DigitRun(s, i + d1 + nl + d2)} })
        : d2 \in {Optional(s, i + d1 + nl, "$")} })
        : nl \in {UpperRun(s, i + d1)} })
        : d1 \in {Optional(s, i, "$")} })

\* cell_pattern matched at position i of s: the optional sheet group with
\* its "!", the cell, the optional ":" and range end
MatchAt(s, i) ==
    The({ The({ The({ The({
        IF first = <<>> THEN <<>>
        ELSE <<[sheet |-> IF sheeted # <<>> THEN SubSeq(s, i, i + ns - 1) ELSE <<>>,
                col |-> first[1].col, row |-> first[1].row,
                ecol |-> IF last # <<>> THEN last[1].col ELSE <<>>,
                erow |-> IF last # <<>> THEN last[1].row ELSE <<>>,
                end |-> IF last # <<>> THEN last[1].end ELSE first[1].end]>>
        : last \in {IF first # <<>> /\ Optional(s, first[1].end, ":") = 1
                    THEN The({MatchCore(s, j) : j \in {first[1].end + 1}}) ELSE <<>>} })
        : first \in {IF sheeted # <<>> THEN sheeted ELSE MatchCore(s, i)} })
        : sheeted \in {IF ns >= 1 /\ Optional(s, i + ns, "!") = 1
                       THEN The({MatchCore(s, j) : j \in {i + ns + 1}}) ELSE <<>>} })
        : ns \in {SheetRun(s, i)} })

\* cell_pattern.findall(s) from position i on: the matches from left to
\* right, each search starting where the last match ended.  starts holds the
\* positions at which the pattern matches; the search from i finds the first
\* of them that is not before i.
RECURSIVE FindFrom(_, _, _)
FindFrom(s, starts, i) ==
    IF \A j \in starts : j < i THEN <<>>
    ELSE The({ The({ <<m[1]>> \o The({FindFrom(s, starts, e) : e \in {m[1].end}})
                     : m \in {MatchAt(s, j)} })
               : j \in {CHOOSE j \in starts : j >= i /\ \A k \in starts : k >= i => j <= k} })
FindAll(s, i) ==
    The({FindFrom(s, starts, i) : starts \in {{j \in i..Len(s) : MatchAt(s, j) # <<>>}}})

\* The character of s at position i, "" beyond its ends
At(s, i) == IF i >= 1 /\ i <= Len(s) THEN s[i] ELSE ""
\* \.xlsx?\] matched at position k of s, letters in either case
XlsEnd(s, k) ==
    /\ At(s, k) = "."
    /\ LowerChar(At(s, k + 1)) = "x"
    /\ LowerChar(At(s, k + 2)) = "l"
    /\ LowerChar(At(s, k + 3)) = "s"
    /\ \/ At(s, k + 4) = "]"
       \/ LowerChar(At(s, k + 4)) = "x" /\ At(s, k + 5) = "]"
\* A search that finds nothing
SearchNothing(s) == FALSE
\* re.search(r'\[[^]]+\.xlsx?\]', s, re.IGNORECASE)
SearchBracketed(s) ==
    \E i \in 1..Len(s) : \E k \in (i + 2)..Len(s) :
        /\ s[i] = "["
        /\ \A j \in (i + 1)..(k - 1) : s[j] # "]"
        /\ XlsEnd(s, k)
\* re.search(r"'\[[^']+\.[^']+\.xlsx?\]", s, re.IGNORECASE)
SearchQuotedPath(s) ==
    \E i \in 1..Len(s) : \E k \in (i + 5)..Len(s) :
        /\ s[i] = "'" /\ At(s, i + 1) = "["
        /\ \A j \in (i + 2)..(k - 1) : s[j] # "'"
        /\ \E j \in (i + 3)..(k - 2) : s[j] = "."
        /\ XlsEnd(s, k)

\* The lexemes of a formula text: what the analyzer's three readings of the
\* text see of it: formula.startswith('='), the matches of
\* cell_pattern.findall(formula[1:]), and the two external-workbook searches
Lex(text) ==
    The({ (IF startswith(text, "=") THEN <<EqLex>> ELSE <<TxtLex>>)
          \o (IF SearchBracketed(text) \/ SearchQuotedPath(text) THEN <<ExtLex>> ELSE <<>>)
          \o [k \in 1..Len(matches) |->
                 Lexeme("ref", matches[k].sheet, matches[k].col, matches[k].row,
                        matches[k].ecol, matches[k].erow)]
          : matches \in {FindAll(text, 2)} })

\* sub in s
Contains(s, sub) ==
    \E i \in 1..(Len(s) - Len(sub) + 1) : SubSeq(s, i, i + Len(sub) - 1) = sub

\* self.supported_functions
supported_functions ==
    {<<"S", "U", "M">>,
     <<"A", "V", "E", "R", "A", "G", "E">>,
     <<"C", "O", "U", "N", "T">>,
     <<"M", "A", "X">>,
     <<"M", "I", "N">>,
     <<"S", "U", "M", "I", "F">>,
     <<"S", "U", "M", "I", "F", "S">>,
     <<"I", "F">>,
     <<"I", "F", "E", "R", "R", "O", "R">>,
     <<"V", "L", "O", "O", "K", "U", "P">>,
     <<"H", "L", "O", "O", "K", "U", "P">>,
     <<"I", "N", "D", "E", "X">>,
     <<"M", "A", "T", "C", "H">>}

\* parse_formula, _has_external_references and the count of supported
\* functions on a formula text.  A text of no character stands for '' and
\* for None alike: `not formula` holds of both.
parse_formula_text(formula) ==
    The({parse_formula(lexemes) : lexemes \in {Lex(formula)}})
has_external_references_text(formula) ==
    The({has_external_references(lexemes) : lexemes \in {Lex(formula)}})
num_functions(formula) ==
    The({ Cardinality({func \in supported_functions : Contains(text, func \o <<"(">>)})
          : text \in {upper(formula)} })

\* Complexity with num_refs > 0 for num_refs > 1
ComplexityFromOne(num_refs, functions) ==
    IF num_refs > 5 \/ functions > 2 THEN "complex"
    ELSE IF num_refs > 0 \/ functions > 0 THEN "moderate"
    ELSE "simple"
\* complexity = "simple" / "complex" / "moderate" by the two counts
Complexity(num_refs, functions) ==
    IF num_refs > 5 \/ functions > 2 THEN "complex"
    ELSE IF num_refs > 1 \/ functions > 0 THEN "moderate"
    ELSE "simple"

\* analyze_formula_complexity
analyze_formula_complexity(formula) ==
    IF formula = <<>> \/ ~startswith(formula, "=")
    THEN [complexity |-> "simple", can_drill_down |-> FALSE, has_external_refs |-> FALSE]
    ELSE The({ [complexity |-> Complexity(num_refs, functions),
                can_drill_down |-> ~has_external_refs /\ num_refs > 0,
                has_external_refs |-> has_external_refs]
               : has_external_refs \in {has_external_references_text(formula)},
                 num_refs \in {Len(parse_formula_text(formula))},
                 functions \in {num_functions(formula)} })

\* CellReference.__str__
CellReferenceStr(ref) ==
    LET abs_col == IF ref.is_absolute_column THEN <<"$">> ELSE <<>>
        abs_row == IF ref.is_absolute_row THEN <<"$">> ELSE <<>>
        base == abs_col \o ref.column \o abs_row \o str(ref.row)
        result == IF ref.is_range
                  THEN base \o <<":">> \o abs_col \o ref.range_end_column
                       \o abs_row \o str(ref.range_end_row)
                  ELSE base
    IN  IF ref.sheet_name # None THEN ref.sheet_name \o <<"!">> \o result ELSE result

\* ---------------------------------------------------------------- workbook
\* A cell as openpyxl gives it: data_type "f" with the formula text in
\* formula (load with data_only=False), and the cached value (load with
\* data_only=True) in cached: [t |-> "num", v |-> n], [t |-> "str"] or
\* [t |-> "none"].
NumValue(n) == [t |-> "num", v |-> n]
StrValue == [t |-> "str", v |-> 0]
NoValue == [t |-> "none", v |-> 0]
NumCell(n) == [data_type |-> "n", formula |-> <<>>, cached |-> NumValue(n)]
StrCell == [data_type |-> "s", formula |-> <<>>, cached |-> StrValue]
FormulaCell(f, n) == [data_type |-> "f", formula |-> f, cached |-> NumValue(n)]
\* worksheet[coordinate] creates the cell when it does not exist yet
EmptyCell == [data_type |-> "n", formula |-> <<>>, cached |-> NoValue]
\* A cell holding TRUE or FALSE: its value is a Python bool
BoolCell(b) == [data_type |-> "b", formula |-> <<>>,
                cached |-> [t |-> "bool", v |-> IF b THEN 1 ELSE 0]]
\* A cell holding a date: its value is a datetime
DateCell == [data_type |-> "d", formula |-> <<>>, cached |-> [t |-> "date", v |-> 0]]
\* isinstance(value, (int, float)): bool is a subclass of int
IsIntOrFloat(cached) == cached.t \in {"num", "bool"}
\* isinstance without the subclasses
IsIntOrFloatOnly(cached) == cached.t = "num"

S1 == <<"S", "1">>
S2 == <<"S", "2">>
A == <<"A">>
B == <<"B">>
C == <<"C">>
R1 == <<"1">>
R2 == <<"2">>

\* Contents the cells S1!A1, S1!B1, S1!A2 and S2!A1 are drawn from
\*   =B1+A2   =B1   =A1   =SUM(A1:B1)   =Nope!A1+S2!A1   5
ContentsA1 ==
    { FormulaCell(<<EqLex, CellLex(None, B, R1), TxtLex, CellLex(None, A, R2)>>, 12),
      FormulaCell(<<EqLex, CellLex(None, B, R1)>>, 7),
      FormulaCell(<<EqLex, CellLex(None, A, R1)>>, 0),
      FormulaCell(<<EqLex, TxtLex, RangeLex(None, A, R1, B, R1), TxtLex>>, 9),
      FormulaCell(<<EqLex, CellLex(<<"N","o","p","e">>, A, R1), TxtLex, CellLex(S2, A, R1)>>, 3),
      NumCell(5) }
\*   =A2   =$A$1   =S2!A1+S2!A1   =[Other.xlsx]S1!A1   0   =SUM(A2:A3)
ContentsB1 ==
    { FormulaCell(<<EqLex, CellLex(None, A, R2)>>, 7),
      FormulaCell(<<EqLex, CellLex(None, <<"$","A">>, <<"$","1">>)>>, 7),
      FormulaCell(<<EqLex, CellLex(S2, A, R1), TxtLex, CellLex(S2, A, R1)>>, 6),
      FormulaCell(<<EqLex, ExtLex, CellLex(S1, A, R1)>>, 4),
      NumCell(0),
      FormulaCell(<<EqLex, TxtLex, RangeLex(None, A, R2, A, <<"3">>), TxtLex>>, 5) }
\*   =S2!A1   =B1   5   text   =[Other.xlsx]S1!A1
ContentsA2 ==
    { FormulaCell(<<EqLex, CellLex(S2, A, R1)>>, 3),
      FormulaCell(<<EqLex, CellLex(None, B, R1)>>, 7),
      NumCell(5),
      StrCell,
      FormulaCell(<<EqLex, ExtLex, CellLex(S1, A, R1)>>, 4) }
\*   3   =A1   =B1
ContentsS2A1 ==
    { NumCell(3),
      FormulaCell(<<EqLex, CellLex(None, A, R1)>>, 0),
      FormulaCell(<<EqLex, CellLex(None, B, R1)>>, 0) }
\*   =SUM(S1!C1:C<BigRows>): a range of more cells than the range cap
LargeRangeCell ==
    FormulaCell(<<EqLex, TxtLex, RangeLex(S1, C, R1, C, str(BigRows)), TxtLex>>, 5)

\* The workbook file: sheet names in order, and per sheet the cells that
\* exist in the file, by coordinate.  S1!C1 = 5, S1!C2 = 0, the rest of
\* column C is empty.
Workbook(a1, b1, a2, s2a1) ==
    [sheetnames |-> <<S1, S2>>,
     sheets |-> (S1 :> (A \o R1 :> a1 @@ B \o R1 :> b1 @@ A \o R2 :> a2
                        @@ C \o R1 :> NumCell(5) @@ C \o R2 :> NumCell(0))
                 @@ S2 :> (A \o R1 :> s2a1))]
Workbooks ==
    { Workbook(a1, b1, a2, s2a1) :
        a1 \in ContentsA1, b1 \in ContentsB1, a2 \in ContentsA2, s2a1 \in ContentsS2A1 }

\* wb.sheetnames contains the name (wb[name] raises KeyError otherwise)
HasSheet(wb, name) == \E k \in 1..Len(wb.sheetnames) : wb.sheetnames[k] = name
\* wb[sheet_name][coordinate]
CellAt(wb, sheet_name, coordinate) ==
    IF coordinate \in DOMAIN wb.sheets[sheet_name]
    THEN wb.sheets[sheet_name][coordinate] ELSE EmptyCell

\* The (sheet_name, cell_address, max_depth) arguments of the calls made
\* Every workbook is resolved from S1!A1 and S2!A1 at each depth; the calls
\* with other spellings of the sheet or the address are made on the
\* workbooks that differ in S1!A1 only.
MainRequests ==
    { [sheet_name |-> sh, cell_address |-> <<"A", "1">>, max_depth |-> d] :
        sh \in {S1, S2}, d \in 1..MaxDepth }
OddCells ==
    { <<<<"s","1"," ">>, <<"A","1">>>>, <<S1, <<"a","1">>>>, <<S1, <<" ","A","1">>>>,
      <<<<"N","o">>, <<"A","1">>>>, <<S1, <<>>>>, <<S1, <<"A","1","x">>>>,
      <<S1, <<"1","A">>>>, <<S1, <<"A","1">>>> }
OddRequests ==
    { [sheet_name |-> c[1], cell_address |-> c[2], max_depth |-> d] :
        c \in OddCells, d \in 0..MaxDepth }
OddWorkbooks ==
    { Workbook(a1, NumCell(0), NumCell(5), NumCell(3)) : a1 \in ContentsA1 }
\* The workbooks whose S2!A1 sums the large range
LargeWorkbooks ==
    { Workbook(a1, NumCell(0), NumCell(5), LargeRangeCell) :
        a1 \in { NumCell(5),
                 FormulaCell(<<EqLex, CellLex(<<"N","o","p","e">>, A, R1), TxtLex,
                               CellLex(S2, A, R1)>>, 3) } }

\* Workbooks whose S1!A1 sums a block of two rows and two columns, on its own
\* sheet or on S2, or a range written with its end before its start
RangeWorkbooks ==
    { Workbook(FormulaCell(<<EqLex, TxtLex, range, TxtLex>>, 9),
               NumCell(2), NumCell(5), NumCell(3)) :
        range \in { RangeLex(None, B, R1, C, R2), RangeLex(S2, A, R1, B, R2),
                    RangeLex(None, C, R2, B, R1), RangeLex(None, B, R2, C, R1),
                    RangeLex(None, C, R1, B, R2) } }

\* Workbooks whose S1!A1 refers to S2!A1 with the sheet name in lower case
CaseWorkbooks ==
    { Workbook(FormulaCell(<<EqLex, CellLex(<<"s", "2">>, A, R1)>>, 3),
               NumCell(2), NumCell(5), s2a1) : s2a1 \in {NumCell(3), StrCell} }

\* ---------------------------------------------------------------- resolver
VARIABLES
    phase,          \* "idle": before build_dependency_tree; "running"; "done"
    book,           \* the workbook file at workbook_path
    req,            \* the arguments of build_dependency_tree
    stack,          \* the frames of _analyze_cell_recursive / _expand_range_reference
    visited_cells,  \* the one visited_cells set of the call
    visiting,       \* the visiting set objects created so far, by identity
    result,         \* what build_dependency_tree returned: None or <<component>>
    progressive,    \* what get_progressive_dependencies returned: None or <<list>>
    calls,          \* the calls this FormulaAnalyzer has completed: arguments and result
    fn,             \* one call of parse_formula / analyze_formula_complexity / ...
    io,             \* one call that opens the workbook file, and its two handles
    sessions,           \* main.py: sessions, session_id -> session data
    naming_configs,     \* main.py: naming_configs, session_id -> sheet -> column
    ai_processed_cells, \* main.py: session_id -> sheet -> cell_ref -> AI result
    manual_ai_edits,    \* main.py: session_id -> sheet -> cell -> manual name
    uploads,            \* UPLOADS_DIR: directory name -> age and workbook file
    issued,             \* the number of uuid4() session ids generated so far
    loop,               \* the handler that holds the event loop's thread
    response,           \* the response to the last request handled
    deleted             \* the ids whose DELETE returned (history)

\* The state of main.py
server == <<sessions, naming_configs, ai_processed_cells, manual_ai_edits,
            uploads, issued, loop, response, deleted>>

vars == <<phase, book, req, stack, visited_cells, visiting, result,
          progressive, calls, fn, io, server>>

\* The variables the resolver does not touch
others == <<progressive, calls, fn, io, server>>

\* What a variable holds while the part of the program it belongs to is not
\* running
Unused == <<>>

\* main.py is not running
ServerUnused ==
    /\ sessions = Unused /\ naming_configs = Unused /\ ai_processed_cells = Unused
    /\ manual_ai_edits = Unused /\ uploads = Unused /\ issued = 0
    /\ loop = Unused /\ response = Unused /\ deleted = {}

\* FormulaComponent (variance_contribution, always 0.0, is left out).  via is a
\* history field, not a field of the class: how the node was reached ("root",
\* "cell": a single-cell reference, "range": a cell of a range reference).
FormulaComponent(name, value, formula, is_leaf_node, via) ==
    [name |-> name, cell_reference |-> name, value |-> value, formula |-> formula,
     is_leaf_node |-> is_leaf_node, dependencies |-> <<>>, via |-> via]

\* 0.0 unless the cached value is an int or a float
ValueOf(cell_data) == IF IsIntOrFloat(cell_data.cached) THEN cell_data.cached.v ELSE 0

\* The component built from the cell at sheet_name!cell_address, where
\* cell_match is the match of simple_cell_pattern on cell_address
ComponentAt(sheet_name, cell_address, cell_match, via) ==
    LET col == upper(cell_match.col)
        row == int(cell_match.row)
        cell == CellAt(book, sheet_name, col \o str(row))
    IN  FormulaComponent(sheet_name \o <<"!">> \o cell_address,
                         ValueOf(cell),
                         IF cell.data_type = "f" THEN cell.formula ELSE None,
                         cell.data_type # "f",
                         via)

\* The cell a component was built from
CellOf(sheet_name, cell_match) ==
    CellAt(book, sheet_name, upper(cell_match.col) \o str(int(cell_match.row)))

\* cell_id of _analyze_cell_recursive
CellId(sheet_name, cell_address) ==
    (IF sheet_name # <<>> THEN strip(sheet_name) \o <<"!">> ELSE <<>>) \o cell_address
\* cell_address = (cell_address or "A1").strip()
CleanAddress(cell_address) ==
    strip(IF cell_address # <<>> THEN cell_address ELSE <<"A", "1">>)

\* current_depth >= max_depth on entry of _analyze_cell_recursive
DepthReached(current_depth, max_depth) == current_depth >= max_depth
\* AtDepthLimit with > for >=: the reference at the limit is followed
AtDepthLimitLate(current_depth, max_depth) == current_depth + 1 > max_depth
\* current_depth + 1 >= max_depth before a single-cell reference is followed
AtDepthLimit(current_depth, max_depth) == current_depth + 1 >= max_depth
\* current_depth >= max_depth inside _expand_range_reference
RangeAtDepthLimit(current_depth, max_depth) == current_depth >= max_depth
\* ChildDepth without the increment
ChildDepthSame(current_depth) == current_depth
\* the depth a callee is given
ChildDepth(current_depth) == current_depth + 1
\* TargetSheet reading an unqualified reference on the first sheet
TargetSheetFirst(ref, sheet_name) ==
    IF ref.sheet_name # None THEN ref.sheet_name ELSE book.sheetnames[1]
\* target_sheet = ref.sheet_name or sheet_name
TargetSheet(ref, sheet_name) == IF ref.sheet_name # None THEN ref.sheet_name ELSE sheet_name
\* target_address = f"{ref.column}{ref.row}"
TargetAddress(column, row) == column \o str(row)

\* The "create a simple component without recursing" block: [] when
\* wb[target_sheet] raises (the except clause logs and goes on) or the
\* address does not match, else [component]
ShallowComponent(target_sheet, target_address, via) ==
    IF ~HasSheet(book, target_sheet) THEN <<>>
    ELSE LET cell_match == simple_cell_pattern_match(target_address)
         IN  IF cell_match = <<>> THEN <<>>
             ELSE <<ComponentAt(target_sheet, target_address, cell_match[1], via)>>

\* A frame of _analyze_cell_recursive as it is called: visiting_id 0 stands for
\* visiting=None
CellFrame(sheet_name, cell_address, current_depth, visiting_id, via) ==
    [kind |-> "cell", pc |-> "entry", sheet_name |-> sheet_name,
     cell_address |-> cell_address, current_depth |-> current_depth,
     visiting_id |-> visiting_id, cell_id |-> <<>>, component |-> None,
     references |-> <<>>, i |-> 1, via |-> via]

\* A frame of _expand_range_reference at the head of its loops
RangeFrame(ref, current_depth, current_sheet) ==
    [kind |-> "range", ref |-> ref, current_depth |-> current_depth,
     current_sheet |-> current_sheet,
     start_col |-> column_letter_to_number(ref.column),
     end_col |-> column_letter_to_number(ref.range_end_column),
     row_num |-> ref.row,
     col_num |-> column_letter_to_number(ref.column),
     components |-> <<>>]

\* for row_num in range(ref.row, ref.range_end_row + 1):
\*     for col_num in range(start_col, end_col + 1): has a current cell
RangeHasCell(f) == f.row_num <= f.ref.range_end_row /\ f.start_col <= f.end_col
\* the loops move to the next cell
\* The loops the other way round: for each column, each row
RangeAdvanceColumnMajor(f) ==
    IF f.row_num < f.ref.range_end_row THEN [f EXCEPT !.row_num = f.row_num + 1]
    ELSE IF f.col_num < f.end_col
         THEN [f EXCEPT !.row_num = f.ref.row, !.col_num = f.col_num + 1]
    ELSE [f EXCEPT !.row_num = f.ref.range_end_row + 1, !.col_num = f.start_col]
RangeAdvance(f) ==
    IF f.col_num < f.end_col THEN [f EXCEPT !.col_num = f.col_num + 1]
    ELSE [f EXCEPT !.row_num = f.row_num + 1, !.col_num = f.start_col]

Top == stack[Len(stack)]
Rest == SubSeq(stack, 1, Len(stack) - 1)

\* The caller goes on with what its callee returned: a cell frame appends the
\* component when there is one (if dep_component:) and moves to its next
\* reference; a range frame appends it (if component:) and moves to its
\* next cell.
Resume(caller, returned) ==
    IF caller.kind = "cell"
    THEN [caller EXCEPT !.component[1].dependencies = @ \o returned, !.i = @ + 1]
    ELSE RangeAdvance([caller EXCEPT !.components = @ \o returned])

\* The top frame returns `returned` to its caller, or to build_dependency_tree
ReturnToCaller(returned) ==
    IF Len(stack) = 1
    THEN /\ stack' = <<>>
         /\ result' = returned
         /\ phase' = "done"
    ELSE /\ stack' = SubSeq(stack, 1, Len(stack) - 2)
                     \o <<Resume(stack[Len(stack) - 1], returned)>>
         /\ UNCHANGED <<result, phase>>

Init ==
    /\ phase = "idle"
    /\ \/ book \in Workbooks /\ req \in MainRequests
       \/ book \in OddWorkbooks /\ req \in OddRequests
       \/ book \in LargeWorkbooks /\ req \in MainRequests
       \/ book \in RangeWorkbooks /\ req \in MainRequests
       \/ book \in CaseWorkbooks /\ req \in MainRequests
    /\ stack = <<>>
    /\ visited_cells = {}
    /\ visiting = <<>>
    /\ result = None
    /\ progressive = Unused
    /\ calls = <<>>
    /\ fn = Unused
    /\ io = Unused
    /\ ServerUnused

\* build_dependency_tree up to the call of _analyze_cell_recursive: the sheet
\* is looked up by its stripped, lower-cased name; None when there is none
MatchingSheets(sheet_name) ==
    {k \in 1..Len(book.sheetnames) :
        lower(strip(book.sheetnames[k])) = lower(strip(sheet_name))}
ActualSheet(sheet_name) ==
    book.sheetnames[CHOOSE k \in MatchingSheets(sheet_name) :
                        \A j \in MatchingSheets(sheet_name) : k <= j]

BuildSheetNotFound ==
    /\ UNCHANGED others
    /\ phase = "idle"
    /\ MatchingSheets(req.sheet_name) = {}
    /\ phase' = "done"
    /\ result' = None
    /\ UNCHANGED <<book, req, stack, visited_cells, visiting>>

\* The set of an earlier call used again
SetOfEarlierCall(earlier) == earlier
\* if visited_cells is None: visited_cells = set()
NewSet(earlier) == {}

BuildDependencyTree ==
    /\ UNCHANGED others
    /\ phase = "idle"
    /\ MatchingSheets(req.sheet_name) # {}
    /\ phase' = "running"
    /\ \E actual_sheet_name \in {ActualSheet(req.sheet_name)} :
          stack' = <<CellFrame(actual_sheet_name, req.cell_address, 0, 0, "root")>>
    /\ visited_cells' = NewSet(visited_cells)
    /\ visiting' = <<>>
    /\ UNCHANGED <<book, req, result>>

\* In the actions below, \E v \in {e} : ... names the value of e, as the
\* local variable of the code it is named after.

\* The top frame is _analyze_cell_recursive at its first statement
AtEntry == phase = "running" /\ stack # <<>> /\ Top.kind = "cell" /\ Top.pc = "entry"
\* The visiting set the frame works on: a new one when it got visiting=None
EntryVisitingId == IF Top.visiting_id = 0 THEN Len(visiting) + 1 ELSE Top.visiting_id
EntryVisiting == IF Top.visiting_id = 0 THEN {} ELSE visiting[Top.visiting_id]
EntryAddress == CleanAddress(Top.cell_address)
EntryCellId == CellId(Top.sheet_name, EntryAddress)
\* visiting as the frame leaves it when it returns before visiting.add, or
\* after visiting.add and visiting.discard
VisitingUntouched ==
    IF Top.visiting_id = 0 THEN Append(visiting, {}) ELSE visiting

\* if cell_id in visiting: return None
RejectCircular ==
    /\ UNCHANGED others
    /\ AtEntry
    /\ \E cell_id \in {EntryCellId} : cell_id \in EntryVisiting
    /\ visiting' = VisitingUntouched
    /\ ReturnToCaller(None)
    /\ UNCHANGED <<book, req, visited_cells>>

\* if cell_id in visited_cells: return None
RejectVisited ==
    /\ UNCHANGED others
    /\ AtEntry
    /\ \E cell_id \in {EntryCellId} :
          cell_id \notin EntryVisiting /\ cell_id \in visited_cells
    /\ visiting' = VisitingUntouched
    /\ ReturnToCaller(None)
    /\ UNCHANGED <<book, req, visited_cells>>

\* The frame passes the first two checks
NotSeen(cell_id) == cell_id \notin EntryVisiting /\ cell_id \notin visited_cells

\* if current_depth >= max_depth: return None
RejectDepth ==
    /\ UNCHANGED others
    /\ AtEntry
    /\ \E cell_id \in {EntryCellId} : NotSeen(cell_id)
    /\ DepthReached(Top.current_depth, req.max_depth)
    /\ visiting' = VisitingUntouched
    /\ ReturnToCaller(None)
    /\ UNCHANGED <<book, req, visited_cells>>

\* The frame passes the three checks and enters the try block
Admitted(cell_id) == NotSeen(cell_id) /\ ~DepthReached(Top.current_depth, req.max_depth)

\* visiting.add(cell_id); if sheet_name not in wb.sheetnames: return None;
\* finally: visiting.discard(cell_id), component is None
SheetNotFound ==
    /\ UNCHANGED others
    /\ AtEntry
    /\ \E cell_id \in {EntryCellId} : Admitted(cell_id)
    /\ ~HasSheet(book, Top.sheet_name)
    /\ visiting' = VisitingUntouched
    /\ ReturnToCaller(None)
    /\ UNCHANGED <<book, req, visited_cells>>

\* cell_match = simple_cell_pattern.match(cell_address); if not cell_match:
\* return None; finally as above
AddressNoMatch ==
    /\ UNCHANGED others
    /\ AtEntry
    /\ \E cell_address \in {EntryAddress} :
          /\ Admitted(CellId(Top.sheet_name, cell_address))
          /\ simple_cell_pattern_match(cell_address) = <<>>
    /\ HasSheet(book, Top.sheet_name)
    /\ visiting' = VisitingUntouched
    /\ ReturnToCaller(None)
    /\ UNCHANGED <<book, req, visited_cells>>

\* if self._has_external_references(formula): component.is_leaf_node = True;
\* return component; finally: visiting.discard(cell_id),
\* visited_cells.add(cell_id)
ExternalLeaf ==
    /\ UNCHANGED others
    /\ AtEntry
    /\ HasSheet(book, Top.sheet_name)
    /\ \E cell_address \in {EntryAddress} :
       \E cell_id \in {CellId(Top.sheet_name, cell_address)} :
       \E cell_match \in {simple_cell_pattern_match(cell_address)} :
          /\ Admitted(cell_id)
          /\ cell_match # <<>>
          /\ \E cell \in {CellOf(Top.sheet_name, cell_match[1])} :
             \E component \in {ComponentAt(Top.sheet_name, cell_address,
                                           cell_match[1], Top.via)} :
                /\ cell.data_type = "f"
                /\ has_external_references(cell.formula)
                /\ visited_cells' = visited_cells \cup {cell_id}
                /\ ReturnToCaller(<<[component EXCEPT !.is_leaf_node = TRUE]>>)
    /\ visiting' = VisitingUntouched
    /\ UNCHANGED <<book, req>>

\* The component is created, cell_id is in visiting, and the frame stands at
\* the head of "for ref in references" (no references for a cell without a
\* formula)
Expand ==
    /\ UNCHANGED others
    /\ AtEntry
    /\ HasSheet(book, Top.sheet_name)
    /\ \E cell_address \in {EntryAddress} :
       \E cell_id \in {CellId(Top.sheet_name, cell_address)} :
       \E cell_match \in {simple_cell_pattern_match(cell_address)} :
          /\ Admitted(cell_id)
          /\ cell_match # <<>>
          /\ \E cell \in {CellOf(Top.sheet_name, cell_match[1])} :
             \E component \in {ComponentAt(Top.sheet_name, cell_address,
                                           cell_match[1], Top.via)} :
                /\ ~(cell.data_type = "f" /\ has_external_references(cell.formula))
                /\ visiting' =
                      IF Top.visiting_id = 0
                      THEN Append(visiting, {cell_id})
                      ELSE [visiting EXCEPT ![Top.visiting_id] = @ \cup {cell_id}]
                /\ stack' = Rest \o <<[Top EXCEPT
                      !.pc = "refs",
                      !.cell_address = cell_address,
                      !.visiting_id = EntryVisitingId,
                      !.cell_id = cell_id,
                      !.component = <<component>>,
                      !.references = IF cell.data_type = "f"
                                     THEN parse_formula(cell.formula) ELSE <<>>,
                      !.i = 1]>>
    /\ UNCHANGED <<phase, book, req, visited_cells, result>>

\* The top frame is _analyze_cell_recursive in its loop over the references
InRefs == phase = "running" /\ stack # <<>> /\ Top.kind = "cell" /\ Top.pc = "refs"
HasRef == InRefs /\ Top.i <= Len(Top.references)
CurrentRef == Top.references[Top.i]

\* A single-cell reference at the depth limit: the shallow component is
\* appended, or nothing when the block raised
SingleShallow ==
    /\ UNCHANGED others
    /\ HasRef
    /\ ~CurrentRef.is_range
    /\ AtDepthLimit(Top.current_depth, req.max_depth)
    /\ \E target_sheet \in {TargetSheet(CurrentRef, Top.sheet_name)} :
       \E target_address \in {TargetAddress(CurrentRef.column, CurrentRef.row)} :
       \E dep_component \in {ShallowComponent(target_sheet, target_address, "cell")} :
          stack' = Rest \o <<Resume(Top, dep_component)>>
    /\ UNCHANGED <<phase, book, req, visited_cells, visiting, result>>

\* A single-cell reference below the depth limit: the recursive call, with
\* visited_cells and visiting passed on
SingleRecurse ==
    /\ UNCHANGED others
    /\ HasRef
    /\ ~CurrentRef.is_range
    /\ ~AtDepthLimit(Top.current_depth, req.max_depth)
    /\ Len(stack) < StackCap
    /\ stack' = Append(stack,
                    CellFrame(TargetSheet(CurrentRef, Top.sheet_name),
                              TargetAddress(CurrentRef.column, CurrentRef.row),
                              ChildDepth(Top.current_depth), Top.visiting_id, "cell"))
    /\ UNCHANGED <<phase, book, req, visited_cells, visiting, result>>

\* A range reference: the call of _expand_range_reference with
\* current_depth + 1, visited_cells and the sheet of the formula
RangeCall ==
    /\ UNCHANGED others
    /\ HasRef
    /\ CurrentRef.is_range
    /\ Len(stack) < StackCap
    /\ stack' = Append(stack,
                    RangeFrame(CurrentRef, ChildDepth(Top.current_depth), Top.sheet_name))
    /\ UNCHANGED <<phase, book, req, visited_cells, visiting, result>>

\* return component after the last reference; finally:
\* visiting.discard(cell_id), visited_cells.add(cell_id)
ReturnComponent ==
    /\ UNCHANGED others
    /\ InRefs
    /\ Top.i > Len(Top.references)
    /\ visiting' = [visiting EXCEPT ![Top.visiting_id] = @ \ {Top.cell_id}]
    /\ visited_cells' = visited_cells \cup {Top.cell_id}
    /\ ReturnToCaller(Top.component)
    /\ UNCHANGED <<book, req>>

\* The top frame is _expand_range_reference
InRange == phase = "running" /\ stack # <<>> /\ Top.kind = "range"
RangeTargetSheet == TargetSheet(Top.ref, Top.current_sheet)
RangeTargetAddress == TargetAddress(number_to_column_letter(Top.col_num), Top.row_num)

\* A cell of the range at the depth limit: the shallow component is appended,
\* or nothing when the block raised
RangeShallow ==
    /\ UNCHANGED others
    /\ InRange
    /\ RangeHasCell(Top)
    /\ RangeAtDepthLimit(Top.current_depth, req.max_depth)
    /\ \E target_sheet \in {RangeTargetSheet} :
       \E target_address \in {RangeTargetAddress} :
       \E component \in {ShallowComponent(target_sheet, target_address, "range")} :
          stack' = Rest \o <<Resume(Top, component)>>
    /\ UNCHANGED <<phase, book, req, visited_cells, visiting, result>>

\* A cell of the range below the depth limit: the recursive call with
\* current_depth and visited_cells; visiting is not passed
RangeRecurse ==
    /\ UNCHANGED others
    /\ InRange
    /\ RangeHasCell(Top)
    /\ ~RangeAtDepthLimit(Top.current_depth, req.max_depth)
    /\ Len(stack) < StackCap
    /\ stack' = Append(stack,
                    CellFrame(RangeTargetSheet, RangeTargetAddress,
                              Top.current_depth, 0, "range"))
    /\ UNCHANGED <<phase, book, req, visited_cells, visiting, result>>

\* return components after the last cell; the caller extends its
\* dependencies with them
RangeReturn ==
    /\ UNCHANGED others
    /\ InRange
    /\ ~RangeHasCell(Top)
    /\ ReturnToCaller(Top.components)
    /\ UNCHANGED <<book, req, visited_cells, visiting>>

Next ==
    \/ BuildSheetNotFound
    \/ BuildDependencyTree
    \/ RejectCircular
    \/ RejectVisited
    \/ RejectDepth
    \/ SheetNotFound
    \/ AddressNoMatch
    \/ ExternalLeaf
    \/ Expand
    \/ SingleShallow
    \/ SingleRecurse
    \/ RangeCall
    \/ ReturnComponent
    \/ RangeShallow
    \/ RangeRecurse
    \/ RangeReturn

Spec == Init /\ [][Next]_vars

\* Fairness: the interpreter runs the call to its return
LiveSpec == Init /\ [][Next]_vars /\ WF_vars(Next)

\* -------------------------------------------------- the analyzer's functions
\* parse_formula, CellReference.__str__, analyze_formula_complexity and
\* get_formula_function, each applied to one formula text.
\*
\* The texts are written from their parts, so that what a text holds is known
\* without reading it: written.text is the text, written.refs the cell and
\* range references written in it from left to right, written.marker whether
\* an external-workbook marker is written in it.
MaxOperands == 2
MaxRefs == 12

\* Names written in the formulas
MY_S == <<"M", "y", " ", "S">>
LOG10 == <<"L", "O", "G", "1", "0">>
SUM == <<"S", "U", "M">>
SUMIF == <<"S", "U", "M", "I", "F">>
VLOOKUP == <<"V", "L", "O", "O", "K", "U", "P">>
MAX == <<"M", "A", "X">>
MIN == <<"M", "I", "N">>
SUMIFS == <<"S", "U", "M", "I", "F", "S">>
OTHER_XLSX == <<"[", "O", "t", "h", "e", "r", ".", "x", "l", "s", "x", "]">>
MY_BOOK_XLS == <<"[", "M", "y", ".", "B", "o", "o", "k", ".", "x", "l", "s", "]">>

Written(text, refs, marker) == [text |-> text, refs |-> refs, marker |-> marker]
\* A cell reference as a formula states it: sheet!, '$' and all
WrittenCell(sheet, quoted, abs_col, col, abs_row, row) ==
    Written((IF sheet = <<>> THEN <<>>
             ELSE IF quoted THEN <<"'">> \o sheet \o <<"'", "!">>
             ELSE sheet \o <<"!">>)
            \o (IF abs_col THEN <<"$">> ELSE <<>>) \o col
            \o (IF abs_row THEN <<"$">> ELSE <<>>) \o str(row),
            <<[sheet_name |-> IF sheet = <<>> THEN None ELSE sheet,
               column |-> col, row |-> row,
               is_absolute_column |-> abs_col, is_absolute_row |-> abs_row,
               is_range |-> FALSE, range_end_column |-> None, range_end_row |-> NoRow]>>,
            FALSE)
\* first:last, the '$' of the end as those of the start
WrittenRange(first, col, row) ==
    Written(first.text \o <<":">>
            \o (IF first.refs[1].is_absolute_column THEN <<"$">> ELSE <<>>) \o col
            \o (IF first.refs[1].is_absolute_row THEN <<"$">> ELSE <<>>) \o str(row),
            <<[first.refs[1] EXCEPT !.is_range = TRUE, !.range_end_column = col,
                                    !.range_end_row = row]>>,
            FALSE)
\* name(argument)
WrittenCall(name, argument) ==
    Written(name \o <<"(">> \o argument.text \o <<")">>, argument.refs, argument.marker)
\* A number or a string literal
WrittenLiteral(text) == Written(text, <<>>, FALSE)
\* A reference into another workbook: the marker before the sheet name
WrittenExternal(workbook, sheet, quoted, col, row) ==
    Written((IF quoted THEN <<"'">> ELSE <<>>) \o workbook \o sheet
            \o (IF quoted THEN <<"'">> ELSE <<>>) \o <<"!">> \o col \o str(row),
            <<WrittenCell(sheet, FALSE, FALSE, col, FALSE, row).refs[1]>>,
            TRUE)
\* left + right
WrittenSum(left, right) ==
    Written(left.text \o <<"+">> \o right.text, left.refs \o right.refs,
            left.marker \/ right.marker)

Operands ==
    { WrittenCell(<<>>, FALSE, FALSE, A, FALSE, 1),
      WrittenCell(<<>>, FALSE, TRUE, B, TRUE, 2),
      WrittenCell(S2, FALSE, FALSE, A, FALSE, 1),
      WrittenCell(MY_S, TRUE, FALSE, C, TRUE, 3),
      WrittenCell(<<>>, FALSE, FALSE, A \o B, FALSE, 12),
      WrittenRange(WrittenCell(<<>>, FALSE, FALSE, A, FALSE, 1), A, 10),
      WrittenRange(WrittenCell(S2, FALSE, TRUE, A, TRUE, 1), B, 2),
      WrittenCall(SUM, WrittenRange(WrittenCell(<<>>, FALSE, FALSE, A, FALSE, 1), A, 10)),
      WrittenCall(LOG10, WrittenCell(<<>>, FALSE, FALSE, A, FALSE, 1)),
      WrittenLiteral(<<"2">>),
      WrittenLiteral(<<"1", "E", "5">>),
      WrittenLiteral(<<"\"", "A", "1", "\"">>),
      WrittenExternal(OTHER_XLSX, S1, FALSE, A, 1),
      WrittenExternal(MY_BOOK_XLS, S1, TRUE, A, 1) }

\* The formulas of up to n operands
RECURSIVE Sums(_)
Sums(n) ==
    IF n <= 1 THEN Operands
    ELSE Sums(n - 1) \cup {WrittenSum(left, right) : left \in Sums(n - 1), right \in Operands}

\* A1+A2+...+An, the literal 2 when n = 0
RECURSIVE ColumnText(_)
ColumnText(n) ==
    IF n = 0 THEN <<"2">>
    ELSE IF n = 1 THEN A \o str(1)
    ELSE ColumnText(n - 1) \o <<"+">> \o A \o str(n)
Column(n) ==
    Written(ColumnText(n),
            [k \in 1..n |-> WrittenCell(<<>>, FALSE, FALSE, A, FALSE, k).refs[1]],
            FALSE)
\* The functions put around it, outermost first
RECURSIVE Opening(_)
Opening(names) ==
    IF names = <<>> THEN <<>> ELSE Head(names) \o <<"(">> \o Opening(Tail(names))
Wrapped(names, argument) ==
    Written(Opening(names) \o argument.text \o [k \in 1..Len(names) |-> ")"],
            argument.refs, argument.marker)
Wrappings ==
    { <<>>, <<SUM>>, <<SUMIF>>, <<VLOOKUP>>, <<LOG10>>, <<SUM, MAX>>, <<SUM, MAX, MIN>> }

\* The single addresses: column letters, a row, "$" or not before each, and
\* no sheet, a plain sheet name, quoted or not, or a sheet name with a
\* blank, quoted
Addresses ==
    { WrittenCell(sheet[1], sheet[2], abs_col, col, abs_row, row) :
        sheet \in {<<<<>>, FALSE>>, <<S2, FALSE>>, <<S2, TRUE>>, <<MY_S, TRUE>>},
        abs_col \in BOOLEAN, abs_row \in BOOLEAN,
        col \in {A, A \o B}, row \in {1, 12} }

\* "=" before the text
AsFormula(written) == [written EXCEPT !.text = <<"=">> \o written.text]
COUNTIF == <<"C", "O", "U", "N", "T", "I", "F">>
\* The formulas that call one function on A1:A10: each function of the
\* allow-list, and COUNTIF, which is not on it
CallArgument == WrittenRange(WrittenCell(<<>>, FALSE, FALSE, A, FALSE, 1), A, 10)
SingleCalls ==
    { WrittenCall(func, CallArgument) : func \in supported_functions \cup {COUNTIF} }
WrittenFormulas ==
    {AsFormula(w) : w \in Sums(MaxOperands) \cup Addresses \cup SingleCalls}
    \cup {AsFormula(Wrapped(names, Column(n))) : names \in Wrappings, n \in 0..MaxRefs}
\* Cell contents that are no formula: they do not start with "="
PlainTexts ==
    { Written(<<>>, <<>>, FALSE),
      Written(<<"5">>, <<>>, FALSE),
      Written(A \o <<"1">>, <<>>, FALSE),
      Written(<<" ", "=">> \o A \o <<"1">>, <<>>, FALSE),
      Written(SUM \o <<"(", "A", "1", ")">>, <<>>, FALSE) }

\* get_formula_function: None, or the first supported function the loop over
\* the set self.supported_functions finds in the text.  The order in which a
\* Python set of strings is gone through is not fixed: every supported
\* function of the text is a possible result.
get_formula_function(formula) ==
    IF formula = <<>> \/ ~startswith(formula, "=") THEN {None}
    ELSE The({ IF found = {} THEN {None} ELSE found
               : found \in {The({ {func \in supported_functions :
                                      Contains(text, func \o <<"(">>)}
                                  : text \in {upper(formula)} })} })

resolver == <<phase, book, req, stack, visited_cells, visiting, result,
              progressive, calls, io, server>>

AnalyzerInit ==
    /\ \E written \in WrittenFormulas \cup PlainTexts :
          fn = [pc |-> "idle", written |-> written, formula |-> written.text,
                references |-> Unused, returned |-> Unused]
    /\ phase = "unused"
    /\ book = Unused /\ req = Unused /\ stack = <<>> /\ visited_cells = {}
    /\ visiting = <<>> /\ result = None /\ progressive = Unused
    /\ calls = <<>> /\ io = Unused
    /\ ServerUnused

\* references = parse_formula(formula)
ParseFormula ==
    /\ fn # Unused /\ fn.pc = "idle"
    /\ \E references \in {parse_formula_text(fn.formula)} :
          fn' = [fn EXCEPT !.pc = "parse_formula", !.references = references,
                           !.returned = references]
    /\ UNCHANGED resolver

\* [str(ref) for ref in references]
StrReferences ==
    /\ fn # Unused /\ fn.pc = "parse_formula"
    /\ fn' = [fn EXCEPT !.pc = "__str__",
                        !.returned = [k \in 1..Len(fn.references) |->
                                         CellReferenceStr(fn.references[k])]]
    /\ UNCHANGED resolver

AnalyzeFormulaComplexity ==
    /\ fn # Unused /\ fn.pc = "idle"
    /\ fn' = [fn EXCEPT !.pc = "analyze_formula_complexity",
                        !.returned = analyze_formula_complexity(fn.formula)]
    /\ UNCHANGED resolver

GetFormulaFunction ==
    /\ fn # Unused /\ fn.pc = "idle"
    /\ \E func \in get_formula_function(fn.formula) :
          fn' = [fn EXCEPT !.pc = "get_formula_function", !.returned = func]
    /\ UNCHANGED resolver

AnalyzerNext ==
    \/ ParseFormula
    \/ StrReferences
    \/ AnalyzeFormulaComplexity
    \/ GetFormulaFunction

AnalyzerSpec == AnalyzerInit /\ [][AnalyzerNext]_vars

\* ------------------------------------------------------- reading the tree
Done == phase = "done"
Returned == phase = "done" /\ result # None
Abs(n) == IF n < 0 THEN -n ELSE n

\* The cell a component stands for: <<sheet, coordinate>> read from its
\* cell_reference "sheet!address" the way the resolver reads an address
ReferredCell(cell_reference) ==
    LET bang == CHOOSE k \in 1..Len(cell_reference) : cell_reference[k] = "!"
        address == SubSeq(cell_reference, bang + 1, Len(cell_reference))
        m == simple_cell_pattern_match(address)[1]
    IN  <<SubSeq(cell_reference, 1, bang - 1), upper(m.col) \o str(int(m.row))>>

\* Every node of the tree under n with its depth, the cells of its ancestors
\* (nearest last) and its path of child indexes
RECURSIVE Walk(_, _, _, _)
Walk(n, depth, ancestors, path) ==
    {[node |-> n, depth |-> depth, ancestors |-> ancestors, path |-> path]}
    \cup UNION { Walk(n.dependencies[k], depth + 1,
                      Append(ancestors, ReferredCell(n.cell_reference)),
                      Append(path, k)) : k \in 1..Len(n.dependencies) }
TreeNodes == IF Returned THEN Walk(result[1], 0, <<>>, <<>>) ELSE {}
InSeq(seq, e) == \E k \in 1..Len(seq) : seq[k] = e

\* A node whose formula the resolver went through: it has a formula without
\* external marker and lies above the depth limit
IsExpanded(w) ==
    /\ w.node.formula # None
    /\ ~has_external_references(w.node.formula)
    /\ w.depth < req.max_depth

\* The text is a cell address: letters then digits and nothing else, apart
\* from surrounding blanks
IsCellAddress(text) ==
    LET m == simple_cell_pattern_match(strip(text))
    IN  m # <<>> /\ Len(m[1].col) + Len(m[1].row) = Len(strip(text))

\* The cells of a range reference in row-major order, as coordinates
RangeCoordinates(ref) ==
    LET first == column_letter_to_number(ref.column)
        ncols == column_letter_to_number(ref.range_end_column) - first + 1
        nrows == ref.range_end_row - ref.row + 1
    IN  IF ncols <= 0 \/ nrows <= 0 THEN <<>>
        ELSE [k \in 1..(ncols * nrows) |->
                number_to_column_letter(first + ((k - 1) % ncols))
                \o str(ref.row + ((k - 1) \div ncols))]

\* <<sheet, coordinate>> of the cells a formula held on `sheet` refers to, in
\* the order of the references, the cells on sheets the workbook does not
\* have left out
RECURSIVE ReferredCells(_, _)
ReferredCells(refs, sheet) ==
    IF refs = <<>> THEN <<>>
    ELSE LET ref == Head(refs)
             target == IF ref.sheet_name # None THEN ref.sheet_name ELSE sheet
             coords == IF ref.is_range THEN RangeCoordinates(ref)
                       ELSE <<ref.column \o str(ref.row)>>
         IN  (IF HasSheet(book, target)
              THEN [k \in 1..Len(coords) |-> <<target, coords[k]>>]
              ELSE <<>>)
             \o ReferredCells(Tail(refs), sheet)

\* ------------------------------------------------------- column numbering
\* _column_letter_to_number and _number_to_column_letter, each applied to an
\* input and then to the result of the other.

MaxLetters == 2
MaxColumn == 800

\* The strings of 1 to n letters A-Z
RECURSIVE ColumnLetters(_)
ColumnLetters(n) ==
    IF n = 0 THEN {}
    ELSE IF n = 1 THEN {<<c>> : c \in UpperSet}
    ELSE ColumnLetters(n - 1)
         \cup {s \o <<c>> : s \in {t \in ColumnLetters(n - 1) : Len(t) = n - 1},
                            c \in UpperSet}

ColumnInit ==
    /\ \/ \E s \in ColumnLetters(MaxLetters) :
             fn = [pc |-> "letters", column_letter |-> s, column_number |-> 0,
                   returned |-> Unused]
       \/ \E n \in 1..MaxColumn :
             fn = [pc |-> "number", column_letter |-> <<>>, column_number |-> n,
                   returned |-> Unused]
    /\ phase = "unused"
    /\ book = Unused /\ req = Unused /\ stack = <<>> /\ visited_cells = {}
    /\ visiting = <<>> /\ result = None /\ progressive = Unused
    /\ calls = <<>> /\ io = Unused
    /\ ServerUnused

\* n = _column_letter_to_number(s)
LetterToNumber ==
    /\ fn.pc = "letters"
    /\ fn' = [fn EXCEPT !.pc = "letters_number",
                        !.column_number = column_letter_to_number(fn.column_letter)]
    /\ UNCHANGED resolver

\* _number_to_column_letter(n)
NumberBackToLetter ==
    /\ fn.pc = "letters_number"
    /\ fn' = [fn EXCEPT !.pc = "letters_number_letters",
                        !.returned = number_to_column_letter(fn.column_number)]
    /\ UNCHANGED resolver

\* s = _number_to_column_letter(n)
NumberToLetter ==
    /\ fn.pc = "number"
    /\ fn' = [fn EXCEPT !.pc = "number_letters",
                        !.column_letter = number_to_column_letter(fn.column_number)]
    /\ UNCHANGED resolver

\* _column_letter_to_number(s)
LetterBackToNumber ==
    /\ fn.pc = "number_letters"
    /\ fn' = [fn EXCEPT !.pc = "number_letters_number",
                        !.returned = <<column_letter_to_number(fn.column_letter)>>]
    /\ UNCHANGED resolver

ColumnNext ==
    \/ LetterToNumber
    \/ NumberBackToLetter
    \/ NumberToLetter
    \/ LetterBackToNumber

ColumnSpec == ColumnInit /\ [][ColumnNext]_vars

\* ------------------------------------------------------ calls in sequence
\* One FormulaAnalyzer serves call after call on the same workbook:
\* build_dependency_tree, and get_progressive_dependencies, which calls it
\* and returns the dependencies of the root.  calls holds the arguments and
\* the tree of each call that returned.

MaxCalls == 2

SessionWorkbooks ==
    { Workbook(FormulaCell(<<EqLex, CellLex(None, B, R1), TxtLex, CellLex(None, A, R2)>>, 12),
               FormulaCell(<<EqLex, CellLex(None, <<"$","A">>, <<"$","1">>)>>, 7),
               FormulaCell(<<EqLex, CellLex(None, B, R1)>>, 7),
               NumCell(3)),
      Workbook(FormulaCell(<<EqLex, TxtLex, RangeLex(None, A, R1, B, R1), TxtLex>>, 9),
               FormulaCell(<<EqLex, ExtLex, CellLex(S1, A, R1)>>, 4),
               NumCell(5),
               NumCell(3)),
      Workbook(FormulaCell(<<EqLex, CellLex(<<"N","o","p","e">>, A, R1), TxtLex,
                             CellLex(S2, A, R1)>>, 3),
               NumCell(0), NumCell(5),
               FormulaCell(<<EqLex, CellLex(None, B, R1)>>, 0)),
      Workbook(FormulaCell(<<EqLex, CellLex(None, B, R1), TxtLex, CellLex(None, B, R1)>>, 4),
               NumCell(2), NumCell(5), NumCell(3)) }

SessionRequests ==
    { [sheet_name |-> S1, cell_address |-> <<"A", "1">>, max_depth |-> d] :
        d \in {0, 1, MaxDepth} }
    \cup { [sheet_name |-> S2, cell_address |-> <<"A", "1">>, max_depth |-> MaxDepth],
           [sheet_name |-> <<"N", "o">>, cell_address |-> <<"A", "1">>, max_depth |-> 1],
           [sheet_name |-> S1, cell_address |-> <<"1", "A">>, max_depth |-> 1] }

\* get_progressive_dependencies has not returned
NotCalled == [called |-> FALSE, value |-> None]

SessionInit ==
    /\ phase = "idle"
    /\ book \in SessionWorkbooks /\ req \in SessionRequests
    /\ stack = <<>> /\ visited_cells = {} /\ visiting = <<>> /\ result = None
    /\ progressive = NotCalled
    /\ calls = <<>>
    /\ fn = Unused /\ io = Unused
    /\ ServerUnused

\* The tree in place of its dependencies
Whole(tree) == <<tree>>
\* tree.dependencies
Dependencies(tree) == tree.dependencies

\* tree = self.build_dependency_tree(..., max_depth=depth), which returned;
\* return tree.dependencies if tree else None
GetProgressiveDependencies ==
    /\ phase = "done" /\ ~progressive.called
    /\ progressive' = [called |-> TRUE,
                       value |-> IF result # None THEN <<Dependencies(result[1])>>
                                 ELSE None]
    /\ UNCHANGED <<phase, book, req, stack, visited_cells, visiting, result, calls, fn, io, server>>

\* The call returned; the next call on the same analyzer and workbook
CallAgain ==
    /\ phase = "done" /\ Len(calls) < MaxCalls
    /\ calls' = Append(calls, [req |-> req, result |-> result])
    /\ req' \in SessionRequests
    /\ phase' = "idle" /\ result' = None /\ progressive' = NotCalled
    /\ UNCHANGED <<book, stack, visited_cells, visiting, fn, io, server>>

SessionNext ==
    \/ BuildSheetNotFound
    \/ BuildDependencyTree
    \/ RejectCircular
    \/ RejectVisited
    \/ RejectDepth
    \/ SheetNotFound
    \/ AddressNoMatch
    \/ ExternalLeaf
    \/ Expand
    \/ SingleShallow
    \/ SingleRecurse
    \/ RangeCall
    \/ ReturnComponent
    \/ RangeShallow
    \/ RangeRecurse
    \/ RangeReturn
    \/ GetProgressiveDependencies
    \/ CallAgain

SessionSpec == SessionInit /\ [][SessionNext]_vars

\* ------------------------------------------------- the workbook's handles
\* build_dependency_tree (formula_analyzer.py) and get_cell_value_and_formula
\* (excel_utils.py) open the workbook twice, with and without data_only,
\* inside one try / except Exception / finally.  io holds the position in
\* the function, the state of the two handles, what was raised and what was
\* returned.  The traversal of build_dependency_tree is one step here: its
\* result is the subject of Spec, and only whether it is a component, None
\* or an exception matters to the handles.

\* The file at workbook_path: load_workbook raises on a corrupt one
Files == {"readable", "corrupt"}
\* The two functions
Readers == {"build_dependency_tree", "get_cell_value_and_formula"}
\* return None / return None, None
NothingFound(reader) == IF reader = "build_dependency_tree" THEN None ELSE <<None, None>>
\* wb.close() left out
LeftOpen(handle) == handle
\* if wb: wb.close()
Closed(handle) == IF handle = "open" THEN "closed" ELSE handle
\* sheet_formula[cell_address] is a cell: letters and digits, nothing else
IsCoordinate(cell_address) ==
    LET m == simple_cell_pattern_match(cell_address)
    IN  m # <<>> /\ Len(m[1].col) + Len(m[1].row) = Len(cell_address)
\* value, formula of get_cell_value_and_formula
ValueAndFormula(sheet_name, cell_address) ==
    LET cell == CellAt(book, sheet_name, upper(cell_address))
    IN  <<IF IsIntOrFloat(cell.cached) THEN <<cell.cached.v>> ELSE None,
          IF cell.data_type = "f" /\ cell.formula # <<>> THEN cell.formula ELSE None>>
\* _analyze_cell_recursive returns a component for the root
RootResolved ==
    simple_cell_pattern_match(CleanAddress(req.cell_address)) # <<>> /\ req.max_depth > 0

handles == <<phase, stack, visited_cells, visiting, result, progressive, calls, fn, server>>

\* Workbooks with a cell of each kind at S1!A1
TypedWorkbooks ==
    { Workbook(a1, NumCell(0), NumCell(5), NumCell(3)) :
        a1 \in {BoolCell(TRUE), BoolCell(FALSE), DateCell, StrCell, EmptyCell,
                NumCell(5), FormulaCell(<<EqLex, CellLex(None, B, R1)>>, 7)} }

IOInit ==
    /\ book \in OddWorkbooks \cup TypedWorkbooks /\ req \in OddRequests
    /\ \E reader \in Readers, file \in Files :
          io = [reader |-> reader, file |-> file, pc |-> "load_workbook",
                wb |-> "none", wb_data |-> "none", raised |-> "none",
                returned |-> Unused]
    /\ phase = "unused" /\ stack = <<>> /\ visited_cells = {} /\ visiting = <<>>
    /\ result = None /\ progressive = Unused /\ calls = <<>> /\ fn = Unused
    /\ ServerUnused

\* wb = openpyxl.load_workbook(workbook_path, data_only=False)
LoadWorkbook ==
    /\ io.pc = "load_workbook"
    /\ io' = IF io.file = "corrupt"
             THEN [io EXCEPT !.pc = "except", !.raised = "load_workbook"]
             ELSE [io EXCEPT !.pc = "load_workbook_data", !.wb = "open"]
    /\ UNCHANGED <<book, req>> /\ UNCHANGED handles

\* wb_data = openpyxl.load_workbook(workbook_path, data_only=True): the file
\* that was readable a moment ago may no longer be
LoadWorkbookData ==
    /\ io.pc = "load_workbook_data"
    /\ \E raises \in BOOLEAN :
          io' = IF raises
                THEN [io EXCEPT !.pc = "except", !.raised = "load_workbook_data"]
                ELSE [io EXCEPT !.pc = "sheet", !.wb_data = "open"]
    /\ UNCHANGED <<book, req>> /\ UNCHANGED handles

\* if not actual_sheet_name: return None
ReaderSheetNotFound ==
    /\ io.pc = "sheet" /\ MatchingSheets(req.sheet_name) = {}
    /\ io' = [io EXCEPT !.pc = "finally", !.returned = NothingFound(io.reader)]
    /\ UNCHANGED <<book, req>> /\ UNCHANGED handles

\* component = self._analyze_cell_recursive(...); return component
Traverse ==
    /\ io.pc = "sheet" /\ MatchingSheets(req.sheet_name) # {}
    /\ io.reader = "build_dependency_tree"
    /\ \E raises \in BOOLEAN :
          io' = IF raises
                THEN [io EXCEPT !.pc = "except", !.raised = "traversal"]
                ELSE [io EXCEPT !.pc = "finally",
                                !.returned = IF RootResolved THEN <<"component">>
                                             ELSE None]
    /\ UNCHANGED <<book, req>> /\ UNCHANGED handles

\* cell_formula = sheet_formula[cell_address] ...; return value, formula
ReadCell ==
    /\ io.pc = "sheet" /\ MatchingSheets(req.sheet_name) # {}
    /\ io.reader = "get_cell_value_and_formula"
    /\ io' = IF ~IsCoordinate(req.cell_address)
             THEN [io EXCEPT !.pc = "except", !.raised = "cell"]
             ELSE [io EXCEPT !.pc = "finally",
                             !.returned = ValueAndFormula(ActualSheet(req.sheet_name),
                                                          req.cell_address)]
    /\ UNCHANGED <<book, req>> /\ UNCHANGED handles

\* except Exception as e: logger.error(...); return None
ExceptException ==
    /\ io.pc = "except"
    /\ io' = [io EXCEPT !.pc = "finally", !.returned = NothingFound(io.reader)]
    /\ UNCHANGED <<book, req>> /\ UNCHANGED handles

\* finally: if wb: wb.close()
CloseWorkbook ==
    /\ io.pc = "finally"
    /\ io' = [io EXCEPT !.pc = "finally_data", !.wb = Closed(io.wb)]
    /\ UNCHANGED <<book, req>> /\ UNCHANGED handles

\* finally: if wb_data: wb_data.close(); the function returns
CloseWorkbookData ==
    /\ io.pc = "finally_data"
    /\ io' = [io EXCEPT !.pc = "returned", !.wb_data = Closed(io.wb_data)]
    /\ UNCHANGED <<book, req>> /\ UNCHANGED handles

IONext ==
    \/ LoadWorkbook
    \/ LoadWorkbookData
    \/ ReaderSheetNotFound
    \/ Traverse
    \/ ReadCell
    \/ ExceptException
    \/ CloseWorkbook
    \/ CloseWorkbookData

IOSpec == IOInit /\ [][IONext]_vars

\* ------------------------------------------------------------------ claims

\* C1: resolve terminates for every workbook (cycles, direct, transitive or
\* through ranges, included) and every max_depth, and its recursion is
\* bounded: no frame is deeper than max_depth and the stack never holds more
\* than 2 * max_depth + 1 frames.
RecursionBounded ==
    /\ Len(stack) <= 2 * req.max_depth + 1
    /\ \A k \in 1..Len(stack) : stack[k].current_depth <= req.max_depth
ResolveTerminates == []RecursionBounded /\ <>Done
\* A tree was returned in which a cell stands below itself: the resolver went
\* round a cycle and still returned
CycleResolved ==
    /\ Returned
    /\ req.max_depth >= 2
    /\ \E w \in TreeNodes : InSeq(w.ancestors, ReferredCell(w.node.cell_reference))

\* C2: no node reached through a single-cell reference refers to the same
\* cell as one of its ancestors (root included), for every max_depth >= 1.
NoCellBelowItself ==
    Returned /\ req.max_depth >= 1 =>
        \A w \in TreeNodes :
            w.node.via = "cell" => ~InSeq(w.ancestors, ReferredCell(w.node.cell_reference))

\* C3: with max_depth >= 1, every node lies at depth <= max_depth, every node
\* at depth max_depth has no dependencies, and the dependencies of an
\* expanded formula node at depth max_depth - 1 are, reference by reference,
\* the existing cells it refers to, each unexpanded and with the value and
\* formula text of its cell.
ShallowView(n) ==
    [cell |-> ReferredCell(n.cell_reference), value |-> n.value,
     formula |-> n.formula, dependencies |-> n.dependencies]
ExpectedShallow(cell) ==
    [cell |-> cell,
     value |-> ValueOf(CellAt(book, cell[1], cell[2])),
     formula |-> IF CellAt(book, cell[1], cell[2]).data_type = "f"
                 THEN CellAt(book, cell[1], cell[2]).formula ELSE None,
     dependencies |-> <<>>]
DepthRule ==
    Returned /\ req.max_depth >= 1 =>
        \A w \in TreeNodes :
            /\ w.depth <= req.max_depth
            /\ w.depth = req.max_depth => w.node.dependencies = <<>>
            /\ (w.depth = req.max_depth - 1 /\ IsExpanded(w)) =>
                  LET cells == ReferredCells(parse_formula(w.node.formula),
                                             ReferredCell(w.node.cell_reference)[1])
                  IN  /\ Len(w.node.dependencies) = Len(cells)
                      /\ \A k \in 1..Len(cells) :
                            ShallowView(w.node.dependencies[k]) = ExpectedShallow(cells[k])
\* A formula cell stands unexpanded at the depth limit, two levels down
FormulaAtDepthLimit ==
    /\ Returned
    /\ req.max_depth >= 2
    /\ \E w \in TreeNodes : w.depth = req.max_depth /\ w.node.formula # None
\* C4: in a workbook without cycles, ranges, external references and
\* references to sheets it does not have, where no cell is referenced more
\* than once, resolve returns the reference tree cut at max_depth: one node
\* per reference, in the order of the references, an unqualified reference
\* read on the sheet of the formula; each node with the cached numeric value
\* of its cell (0 when not numeric) and its formula text; formula nodes that
\* were expanded are no leaves, nodes of cells without formula are leaves.
SheetCells(sheet) == {<<sheet, coordinate>> : coordinate \in DOMAIN book.sheets[sheet]}
FormulaCells ==
    {c \in UNION {SheetCells(sheet) : sheet \in DOMAIN book.sheets} :
        CellAt(book, c[1], c[2]).data_type = "f"}
ReferencesOf(c) == parse_formula(CellAt(book, c[1], c[2]).formula)
TargetsOf(c) ==
    IF CellAt(book, c[1], c[2]).data_type = "f"
    THEN ReferredCells(ReferencesOf(c), c[1]) ELSE <<>>
TargetSet(c) == {TargetsOf(c)[k] : k \in 1..Len(TargetsOf(c))}
RECURSIVE Reachable(_, _)
Reachable(cells, n) ==
    IF n = 0 THEN cells
    ELSE Reachable(cells \cup UNION {TargetSet(c) : c \in cells}, n - 1)
Occurrences(seq, e) == Cardinality({k \in 1..Len(seq) : seq[k] = e})
RECURSIVE SumOver(_, _)
SumOver(cells, e) ==
    IF cells = {} THEN 0
    ELSE LET c == CHOOSE x \in cells : TRUE
         IN  Occurrences(TargetsOf(c), e) + SumOver(cells \ {c}, e)
PlainWorkbook ==
    /\ \A c \in FormulaCells :
          /\ ~has_external_references(CellAt(book, c[1], c[2]).formula)
          /\ \A k \in 1..Len(ReferencesOf(c)) :
                /\ ~ReferencesOf(c)[k].is_range
                /\ HasSheet(book, IF ReferencesOf(c)[k].sheet_name # None
                                  THEN ReferencesOf(c)[k].sheet_name ELSE c[1])
    /\ \A c \in FormulaCells : c \notin Reachable(TargetSet(c), Cardinality(FormulaCells))
    /\ \A c \in FormulaCells : \A e \in TargetSet(c) : SumOver(FormulaCells, e) <= 1
RECURSIVE ReferenceTree(_, _)
ReferenceTree(c, depth) ==
    LET cell == CellAt(book, c[1], c[2])
        expanded == cell.data_type = "f" /\ depth < req.max_depth
    IN  [cell |-> c,
         value |-> IF cell.cached.t = "num" THEN cell.cached.v ELSE 0,
         formula |-> IF cell.data_type = "f" THEN cell.formula ELSE None,
         leaf |-> IF cell.data_type # "f" THEN "leaf"
                  ELSE IF expanded THEN "inner" ELSE "unexpanded",
         dependencies |-> IF expanded
                          THEN [k \in 1..Len(TargetsOf(c)) |->
                                   ReferenceTree(TargetsOf(c)[k], depth + 1)]
                          ELSE <<>>]
RECURSIVE TreeView(_, _)
TreeView(n, depth) ==
    [cell |-> ReferredCell(n.cell_reference),
     value |-> n.value,
     formula |-> n.formula,
     leaf |-> IF n.formula # None /\ depth >= req.max_depth THEN "unexpanded"
              ELSE IF n.is_leaf_node THEN "leaf" ELSE "inner",
     dependencies |-> [k \in 1..Len(n.dependencies) |->
                          TreeView(n.dependencies[k], depth + 1)]]
StartCell ==
    <<ActualSheet(req.sheet_name),
      upper(simple_cell_pattern_match(strip(req.cell_address))[1].col)
      \o str(int(simple_cell_pattern_match(strip(req.cell_address))[1].row))>>
PlainCall ==
    /\ PlainWorkbook
    /\ MatchingSheets(req.sheet_name) # {}
    /\ IsCellAddress(req.cell_address)
    /\ req.max_depth >= 1
HasDependencyOn(w, e) ==
    \E k \in 1..Len(w.node.dependencies) :
        ReferredCell(w.node.dependencies[k].cell_reference) = e
SingleTargets(w) ==
    LET refs == SelectSeq(parse_formula(w.node.formula), LAMBDA r : ~r.is_range)
        cells == ReferredCells(refs, ReferredCell(w.node.cell_reference)[1])
    IN  {cells[k] : k \in 1..Len(cells)}
OnPath(w, e) == InSeq(w.ancestors, e) \/ ReferredCell(w.node.cell_reference) = e
FreshPerParent ==
    Returned =>
        \A w1, w2 \in TreeNodes :
            (w1.path # w2.path /\ IsExpanded(w1) /\ IsExpanded(w2)) =>
                \A e \in SingleTargets(w1) \cap SingleTargets(w2) :
                    (~OnPath(w1, e) /\ ~OnPath(w2, e)) =>
                        HasDependencyOn(w1, e) /\ HasDependencyOn(w2, e)

\* C6: every node whose formula holds an external-workbook marker is a leaf
\* without dependencies, wherever it stands in the tree, for max_depth >= 1.
ExternalIsLeaf ==
    Returned /\ req.max_depth >= 1 =>
        \A w \in TreeNodes :
            (w.node.formula # None /\ has_external_references(w.node.formula)) =>
                w.node.is_leaf_node /\ w.node.dependencies = <<>>

\* C7: one range reference contributes at most 50 nodes: the list
\* _expand_range_reference builds never holds more than 50 components.
RangeCapped ==
    \A k \in 1..Len(stack) :
        stack[k].kind = "range" => Len(stack[k].components) <= 50

\* C8: no node produced by expanding a range has an absolute value below
\* 0.01.
RangeNodesMaterial ==
    Returned =>
        \A w \in TreeNodes : w.node.via = "range" => Abs(w.node.value) * 100 >= 1

\* C9: a node is a leaf if and only if its cell holds no formula or its
\* expansion was stopped on purpose: external reference, or depth limit.
LeafInvariant ==
    Returned /\ req.max_depth >= 1 =>
        \A w \in TreeNodes :
            w.node.is_leaf_node <=>
                \/ w.node.formula = None
                \/ has_external_references(w.node.formula)
                \/ w.depth >= req.max_depth

\* C10: resolve returns None when the starting sheet matches no sheet of the
\* workbook or the starting address is no cell address; and no node of a
\* returned tree stands for a cell of a sheet the workbook does not have.
NotFoundIsNull ==
    Done =>
        /\ (MatchingSheets(req.sheet_name) = {} \/ ~IsCellAddress(req.cell_address))
              => result = None
        /\ \A w \in TreeNodes : HasSheet(book, ReferredCell(w.node.cell_reference)[1])

\* The states after each function of the analyzer returned
Classified == fn.pc = "analyze_formula_complexity"
Parsed == fn.pc = "parse_formula"
Stringified == fn.pc = "__str__"
\* The number of tokens the parser returns for the formula
reference_count == Len(parse_formula_text(fn.formula))
\* No name of the allow-list is followed by "(" in the formula
NoListedFunction == get_formula_function(fn.formula) = {None}

\* C15: for every formula, with reference_count the number of tokens the
\* parser returns, the classification is complex when reference_count > 10,
\* otherwise moderate when reference_count > 3 or the primary function is
\* SUMIF, SUMIFS or VLOOKUP, otherwise simple.
ClassifierThresholds ==
    Classified =>
        \E primary \in get_formula_function(fn.formula) :
            fn.returned.complexity =
                IF reference_count > 10 THEN "complex"
                ELSE IF reference_count > 3 \/ primary \in {SUMIF, SUMIFS, VLOOKUP}
                     THEN "moderate"
                ELSE "simple"

DrillDownAffordance ==
    Classified =>
        /\ fn.returned.can_drill_down
              <=> (startswith(fn.formula, "=") /\ reference_count > 0
                   /\ ~fn.written.marker)
        /\ ~startswith(fn.formula, "=")
              => /\ fn.returned.complexity = "simple"
                 /\ ~fn.returned.can_drill_down

\* A formula with a reference into another workbook, classified
ExternalFormulaClassified ==
    /\ Classified /\ fn.written.marker /\ reference_count > 0
    /\ ~fn.returned.can_drill_down /\ fn.returned.has_external_refs

\* C18: for a formula starting with "=", parse_formula returns one token per
\* cell or range reference written in the formula, from left to right; the
\* function names, operators and literals around them produce no token.
ReferenceExtraction ==
    Parsed /\ startswith(fn.formula, "=") => fn.returned = fn.written.refs

\* C19: parse_formula returns the empty sequence for every input that does
\* not start with "=", the absent input and the empty string included.
NoFormulaIsEmpty ==
    Parsed /\ (fn.formula = <<>> \/ Head(fn.formula) # "=") => fn.returned = <<>>

\* A text holding a cell address after a blank and "=", parsed
AddressTextParsed ==
    /\ Parsed /\ fn.formula # <<>> /\ Head(fn.formula) # "="
    /\ FindAll(fn.formula, 1) # <<>>
    /\ fn.returned = <<>>

\* The sheet name has to stand in quotes in an address
NeedsQuotes(sheet) == \E k \in 1..Len(sheet) : ~IsWord(sheet[k])
\* normalize(s): the column in upper case, the sheet name in quotes only
\* where it needs them
normalize(written) ==
    LET ref == written.refs[1]
    IN  WrittenCell(ref.sheet_name, NeedsQuotes(ref.sheet_name),
                    ref.is_absolute_column, upper(ref.column),
                    ref.is_absolute_row, ref.row)

\* C20: for every valid address s without a range, parsing s and writing the
\* CellReference back as a string gives normalize(s), and the reference
\* keeps the column, the row, both absolute flags and the sheet name.
AddressRoundTrip ==
    Stringified /\ fn.written \in {AsFormula(s) : s \in Addresses} =>
        /\ fn.references = normalize(fn.written).refs
        /\ fn.returned = <<normalize(fn.written).text>>

\* The call returned to its caller
ReaderReturned == io.pc = "returned"

\* C11: when the workbook file is unreadable or corrupt, build_dependency_tree
\* and get_cell_value_and_formula report a failure to the caller that can be
\* told from the result returned for a sheet or cell that is not found.
FailureIsTyped ==
    ReaderReturned /\ io.raised \in {"load_workbook", "load_workbook_data"}
        => io.returned # NothingFound(io.reader)

\* C14: every workbook handle opened by build_dependency_tree or by
\* get_cell_value_and_formula is closed when the call returns, on every exit
\* path: normal return, sheet not found, exception during the traversal, and
\* failure to open the second handle after the first was opened.
HandlesReleased ==
    ReaderReturned => io.wb # "open" /\ io.wb_data # "open"

\* The second load failed after the first handle was opened, and the call
\* returned
SecondLoadFailed ==
    /\ ReaderReturned /\ io.raised = "load_workbook_data"
    /\ io.wb = "closed" /\ io.wb_data = "none"

\* C12: get_progressive_dependencies returns exactly the dependencies of the
\* root of the tree build_dependency_tree returns for max_depth = depth, in
\* the same order, and None exactly when build_dependency_tree returns None;
\* the root itself is no element of the returned list.
ProgressiveIsRootDependencies ==
    progressive.called =>
        /\ progressive.value = None <=> result = None
        /\ result # None =>
              /\ progressive.value = <<result[1].dependencies>>
              /\ \A k \in 1..Len(progressive.value[1]) :
                    progressive.value[1][k] # result[1]

\* get_progressive_dependencies returned the two dependencies of a root
TwoDependenciesReturned ==
    /\ progressive.called /\ result # None
    /\ Len(result[1].dependencies) = 2
    /\ result[1].dependencies[1] # result[1].dependencies[2]
    /\ progressive.value = <<result[1].dependencies>>

\* C13: two calls of build_dependency_tree with the same arguments on the
\* unchanged workbook return equal trees, whatever calls the same analyzer
\* served before or between them.
Stateless ==
    /\ \A i \in 1..Len(calls) : \A j \in 1..Len(calls) :
          calls[i].req = calls[j].req => calls[i].result = calls[j].result
    /\ Done => \A i \in 1..Len(calls) :
                  calls[i].req = req => calls[i].result = result

\* The same call returned the same tree, with dependencies, before and after
\* a call with other arguments
SameTreeAgain ==
    /\ Done /\ Len(calls) >= 2
    /\ calls[1].req = req /\ calls[2].req # req
    /\ result # None /\ result[1].dependencies # <<>>
    /\ calls[2].result # None
    /\ calls[1].result = result

\* The cell get_cell_value_and_formula read, when it returned from the
\* normal path
CellRead ==
    CellAt(book, ActualSheet(req.sheet_name), upper(req.cell_address))
ReadReturned ==
    /\ ReaderReturned /\ io.reader = "get_cell_value_and_formula"
    /\ io.raised = "none" /\ MatchingSheets(req.sheet_name) # {}

\* C21: get_cell_value_and_formula returns a value other than None only when
\* the cached content of the cell is an integer or a floating-point number
\* (None for text, boolean, date and empty cells), and a formula other than
\* None only for a cell that holds a formula.
ValueTyping ==
    ReadReturned =>
        /\ io.returned[1] # None => CellRead.cached.t = "num"
        /\ io.returned[2] # None => CellRead.data_type = "f"

\* C24: the ancestors used for cycle detection are kept across range
\* expansion: no node reached through a range reference refers to the same
\* cell as one of its ancestors (the node being expanded included).
NoRangeCellBelowItself ==
    Returned /\ req.max_depth >= 1 =>
        \A w \in TreeNodes :
            w.node.via = "range" => ~InSeq(w.ancestors, ReferredCell(w.node.cell_reference))

\* The cells a list of components stands for, in order
CellsOf(components) ==
    [k \in 1..Len(components) |-> ReferredCell(components[k].cell_reference)]
\* An earlier call for the same cell with another depth, both depths >= 1
SameCellOtherDepth(call) ==
    /\ call.req.sheet_name = req.sheet_name
    /\ call.req.cell_address = req.cell_address
    /\ call.req.max_depth # req.max_depth
    /\ call.req.max_depth >= 1 /\ req.max_depth >= 1

\* C25: for a fixed workbook and starting cell, the list of cells
\* get_progressive_dependencies returns as direct dependencies is the same
\* for every depth >= 1: a larger depth adds descendants below them only.
DirectDependenciesSameAtEveryDepth ==
    progressive.called =>
        \A i \in 1..Len(calls) :
            SameCellOtherDepth(calls[i]) =>
                /\ calls[i].result = None <=> progressive.value = None
                /\ progressive.value # None =>
                      CellsOf(progressive.value[1])
                          = CellsOf(calls[i].result[1].dependencies)

\* a is b with some elements left out
RECURSIVE IsSubsequence(_, _)
IsSubsequence(a, b) ==
    IF a = <<>> THEN TRUE
    ELSE IF b = <<>> THEN FALSE
    ELSE IF Head(a) = Head(b) THEN IsSubsequence(Tail(a), Tail(b))
    ELSE IsSubsequence(a, Tail(b))
\* The cells of the range in row-major order, on the sheet named in the
\* reference or else on the sheet of the formula
RangeCells(f) ==
    LET sheet == IF f.ref.sheet_name # None THEN f.ref.sheet_name ELSE f.current_sheet
        coords == RangeCoordinates(f.ref)
    IN  [k \in 1..Len(coords) |-> <<sheet, coords[k]>>]
\* The number of cells the loops of the frame went through
Considered(f) ==
    IF f.end_col < f.start_col THEN 0
    ELSE (f.row_num - f.ref.row) * (f.end_col - f.start_col + 1)
         + (f.col_num - f.start_col)
RowMajor(f) ==
    LET cells == RangeCells(f)
        n == Considered(f)
    IN  /\ n \in 0..Len(cells)
        /\ f.col_num \in f.start_col..(IF f.end_col < f.start_col THEN f.start_col
                                       ELSE f.end_col)
        /\ RangeHasCell(f) <=> n < Len(cells)
        /\ RangeHasCell(f) =>
              cells[n + 1] = <<TargetSheet(f.ref, f.current_sheet),
                               TargetAddress(number_to_column_letter(f.col_num), f.row_num)>>
        /\ IsSubsequence(CellsOf(f.components), SubSeq(cells, 1, n))

\* C27: a range reference expands into its cells in row-major order, each
\* cell considered exactly once, on the sheet named in the reference or else
\* on the sheet of the formula; a range whose end row or end column is before
\* its start expands to no node.
RangeExpansionOrder ==
    \A k \in 1..Len(stack) : stack[k].kind = "range" => RowMajor(stack[k])

\* A block of two rows and two columns expanded to its four cells, row by row
BlockExpanded ==
    /\ InRange /\ ~RangeHasCell(Top)
    /\ Top.ref.range_end_row > Top.ref.row /\ Top.end_col > Top.start_col
    /\ Len(Top.components) = 4
    /\ CellsOf(Top.components) = RangeCells(Top)

\* C28: a sheet-qualified reference of a formula whose sheet name differs
\* from the stored sheet name only in letter case or in blanks around it
\* resolves to the cell on that stored sheet, and the dependency is in the
\* tree.
ReferenceSheetsMatched ==
    Returned /\ req.max_depth >= 1 =>
        \A w \in TreeNodes :
            IsExpanded(w) =>
                LET refs == parse_formula(w.node.formula)
                IN  \A k \in 1..Len(refs) :
                    \A j \in 1..Len(book.sheetnames) :
                        /\ refs[k].sheet_name # None /\ ~refs[k].is_range
                        /\ refs[k].sheet_name # book.sheetnames[j]
                        /\ j \in MatchingSheets(refs[k].sheet_name)
                        => HasDependencyOn(w, <<book.sheetnames[j],
                                                refs[k].column \o str(refs[k].row)>>)

\* The column after s in spreadsheet order: A, ..., Z, AA, AB, ..., AZ, BA, ...
RECURSIVE NextColumn(_)
NextColumn(s) ==
    IF s = <<>> THEN <<"A">>
    ELSE IF s[Len(s)] = "Z" THEN NextColumn(SubSeq(s, 1, Len(s) - 1)) \o <<"A">>
    ELSE SubSeq(s, 1, Len(s) - 1) \o <<UpperLetters[LetterOrd[s[Len(s)]] + 1]>>

\* C29: column numbering is bijective base 26 (A=1, Z=26, AA=27): letters to
\* number and back gives the letters, number to letters and back gives the
\* number, and the number grows by one from each column to the next in
\* spreadsheet order, so the mapping is strictly increasing.
ColumnBijection ==
    /\ fn.pc = "letters_number" =>
          /\ fn.column_number >= 1
          /\ fn.column_letter = <<"A">> => fn.column_number = 1
          /\ fn.column_letter = <<"Z">> => fn.column_number = 26
          /\ fn.column_letter = <<"A", "A">> => fn.column_number = 27
          /\ column_letter_to_number(NextColumn(fn.column_letter)) = fn.column_number + 1
    /\ fn.pc = "letters_number_letters" => fn.returned = fn.column_letter
    /\ fn.pc = "number_letters" =>
          /\ fn.column_letter # <<>>
          /\ \A k \in 1..Len(fn.column_letter) : fn.column_letter[k] \in UpperSet
    /\ fn.pc = "number_letters_number" => fn.returned = <<fn.column_number>>

\* AZ went to 52 and back
ColumnAZRoundTrip ==
    /\ fn.pc = "letters_number_letters"
    /\ fn.column_letter = <<"A", "Z">> /\ fn.column_number = 52
    /\ fn.returned = <<"A", "Z">>

\* get_formula_function returned
FunctionReturned == fn.pc = "get_formula_function"
\* The one function the formula calls, for the formulas of SingleCalls
CalledBy(written) ==
    {func \in supported_functions \cup {COUNTIF} :
        written = AsFormula(WrittenCall(func, CallArgument))}

\* C30: for a formula that calls exactly one function, which is on the
\* allow-list, get_formula_function returns the name of that function, the
\* same on every call; it returns None when the text is no formula or calls
\* no function of the allow-list.
PrimaryFunction ==
    FunctionReturned =>
        /\ \A func \in CalledBy(fn.written) :
              fn.returned = IF func \in supported_functions THEN func ELSE None
        /\ ~startswith(fn.formula, "=") => fn.returned = None

\* ------------------------------------------------------------ main.py
\* The FastAPI application: the four module-level dictionaries, the uploads
\* directory and the endpoints.  Every endpoint is an async def, so every
\* handler runs on the one thread of the event loop; a handler runs from its
\* first statement to its return unless it awaits something that suspends.

MaxSessions == 2
\* Hours that pass between two requests
TickHours == 24
\* max_age_hours = 24
max_age_hours == 24

Min(a, b) == IF a < b THEN a ELSE b
\* The function f without the keys
Without(f, keys) == [k \in DOMAIN f \ keys |-> f[k]]
\* d[key] = value
Put(d, key, value) == [k \in DOMAIN d \cup {key} |-> IF k = key THEN value ELSE d[k]]
\* d.get(key, {})
Get(d, key) == IF key \in DOMAIN d THEN d[key] ELSE <<>>
\* An empty dict
EmptyDict == <<>>

\* str.endswith(suffix)
endswith(s, suffix) ==
    Len(s) >= Len(suffix) /\ SubSeq(s, Len(s) - Len(suffix) + 1, Len(s)) = suffix
\* file.filename and file.filename.lower().endswith(('.xlsx', '.xls'))
ValidFileType(filename) ==
    /\ filename # <<>>
    /\ \/ endswith(lower(filename), <<".", "x", "l", "s", "x">>)
       \/ endswith(lower(filename), <<".", "x", "l", "s">>)

\* The workbook a client uploads in this model
UploadedWorkbook ==
    Workbook(FormulaCell(<<EqLex, CellLex(None, B, R1)>>, 7),
             NumCell(7), NumCell(5), NumCell(3))
\* The files of the upload requests: a workbook (its extension in upper
\* case), a text file, a file without a name, and a file named as a workbook
\* that openpyxl cannot load
UploadFiles ==
    { [filename |-> <<"B", ".", "X", "L", "S">>, content |-> <<UploadedWorkbook>>],
      [filename |-> <<"n", ".", "t", "x", "t">>, content |-> None],
      [filename |-> <<>>, content |-> <<UploadedWorkbook>>],
      [filename |-> <<"c", ".", "x", "l", "s", "x">>, content |-> None] }

\* The session ids a client may send: those uuid4() returns, known or not
SessionIds == 1..MaxSessions
\* The sheet names a client sends
Nope == <<"N", "o", "p", "e">>
SheetNames == {S1, Nope}
\* The cell references of an AI batch request: with and without the sheet
SheetCellRef == S1 \o <<"!">> \o A \o R1
BareCellRef == A \o R1

\* No handler is running
Idle == [handler |-> "none"]
\* cleanup_on_exit has run: the process is gone
Exited == [handler |-> "exited"]
\* If the awaited call suspended generate_ai_names, the loop would be free
\* for other handlers in the meantime
AwaitSuspends(running) == running.handler = "exited"
\* response = self.model.generate_content([prompt, image_part]) is a blocking
\* call made on the event loop's thread, and no await of generate_ai_names
\* reaches anything that suspends: no other handler runs before it returns
LoopBusy(running) == running.handler # "none"

\* The response to a request: its status code (200 unless HTTPException is
\* raised); 0 before the first request
NoResponse == [status_code |-> 0]
Respond(endpoint, session_id, status_code) == [status_code |-> status_code]

ServerInit ==
    /\ sessions = EmptyDict /\ naming_configs = EmptyDict
    /\ ai_processed_cells = EmptyDict /\ manual_ai_edits = EmptyDict
    /\ uploads = EmptyDict /\ issued = 0 /\ loop = Idle
    /\ response = NoResponse /\ deleted = {}
    /\ phase = "unused" /\ book = Unused /\ req = Unused /\ stack = <<>>
    /\ visited_cells = {} /\ visiting = <<>> /\ result = None
    /\ progressive = Unused /\ calls = <<>> /\ fn = Unused /\ io = Unused

analysis == <<phase, book, req, stack, visited_cells, visiting, result,
              progressive, calls, fn, io>>

\* force_close_open_workbooks: del session_data['workbook'] and
\* del session_data['excel_reader'] where a session has them
force_close_open_workbooks(ss) ==
    [id \in DOMAIN ss |-> Without(ss[id], {"workbook", "excel_reader"})]

\* The directories the cleanup pass considers old: item_age_hours < max_age_hours
\* is skipped
OldUploads(dirs) == {d \in DOMAIN dirs : ~(dirs[d].age < max_age_hours)}
\* cleanup_uploads_directory: shutil.rmtree(item) for every old directory;
\* a locked directory fails twice and stays
cleanup_uploads_directory(dirs, locked) == Without(dirs, OldUploads(dirs) \ locked)

\* Time passes: every directory's modification time is TickHours further back
TimePasses ==
    /\ loop # Exited
    /\ \E d \in DOMAIN uploads : uploads[d].age < max_age_hours
    /\ uploads' = [d \in DOMAIN uploads |->
                     [uploads[d] EXCEPT !.age = Min(@ + TickHours, max_age_hours)]]
    /\ UNCHANGED <<sessions, naming_configs, ai_processed_cells, manual_ai_edits,
                   issued, loop, response, deleted>>
    /\ UNCHANGED analysis

\* The session data upload_excel_file stores
SessionData(file, file_path) ==
    [filename |-> file.filename, file_path |-> file_path,
     sheets |-> file.content[1].sheetnames]

\* POST /api/upload
UploadExcelFile ==
    /\ ~LoopBusy(loop)
    /\ \E file \in UploadFiles, locked \in SUBSET OldUploads(uploads) :
       \E swept \in {cleanup_uploads_directory(uploads, locked)} :
          IF ~ValidFileType(file.filename)
          THEN /\ uploads' = swept
               /\ sessions' = force_close_open_workbooks(sessions)
               /\ response' = Respond("upload_excel_file", 0, 400)
               /\ UNCHANGED issued
          ELSE /\ issued < MaxSessions
               /\ issued' = issued + 1
               /\ IF file.content = None
                  THEN /\ uploads' = swept
                       /\ sessions' = force_close_open_workbooks(sessions)
                       /\ response' = Respond("upload_excel_file", 0, 500)
                  ELSE /\ uploads' = Put(swept, issued + 1,
                                         [age |-> 0, workbook |-> file.content[1]])
                       /\ sessions' = Put(force_close_open_workbooks(sessions),
                                          issued + 1, SessionData(file, issued + 1))
                       /\ response' = Respond("upload_excel_file", issued + 1, 200)
    /\ UNCHANGED <<naming_configs, ai_processed_cells, manual_ai_edits, loop, deleted>>
    /\ UNCHANGED analysis

\* POST /api/force-cleanup
ForceCleanup ==
    /\ ~LoopBusy(loop)
    /\ \E locked \in SUBSET OldUploads(uploads) :
          uploads' = cleanup_uploads_directory(uploads, locked)
    /\ sessions' = force_close_open_workbooks(sessions)
    /\ response' = Respond("force_cleanup", 0, 200)
    /\ UNCHANGED <<naming_configs, ai_processed_cells, manual_ai_edits, issued,
                   loop, deleted>>
    /\ UNCHANGED analysis

\* if session_id not in sessions: raise HTTPException(status_code=404, ...)
\* is the first check of every endpoint that takes a session id.  The
\* endpoints below change nothing in main.py's state; with a known session,
\* sheet S1 and cell A1 they answer 200.
SessionEndpoint(endpoint, session_id) ==
    /\ ~LoopBusy(loop)
    /\ response' = Respond(endpoint, session_id,
                           IF session_id \notin DOMAIN sessions THEN 404 ELSE 200)
    /\ UNCHANGED <<sessions, naming_configs, ai_processed_cells, manual_ai_edits,
                   uploads, issued, loop, deleted>>
    /\ UNCHANGED analysis

\* GET /api/sheets/{session_id}
GetSheets == \E session_id \in SessionIds : SessionEndpoint("get_sheets", session_id)
\* GET /api/analyze/{session_id}/{sheet_name}/{cell_address}
AnalyzeCell == \E session_id \in SessionIds : SessionEndpoint("analyze_cell", session_id)
\* GET /api/drill-down/{session_id}/{sheet_name}/{cell_address}
DrillDownCell == \E session_id \in SessionIds : SessionEndpoint("drill_down_cell", session_id)
\* POST /api/expand-dependency/{session_id}/{sheet_name}/{cell_address}
ExpandDependency ==
    \E session_id \in SessionIds : SessionEndpoint("expand_dependency", session_id)
\* GET /api/row-values/{session_id}/{sheet_name}/{row_number}
GetRowValuesEndpoint ==
    \E session_id \in SessionIds : SessionEndpoint("get_row_values_endpoint", session_id)
\* GET /api/naming-config/{session_id}
GetNamingConfig ==
    \E session_id \in SessionIds : SessionEndpoint("get_naming_config", session_id)
\* POST /api/get-resolved-names/{session_id}
GetResolvedNames ==
    \E session_id \in SessionIds : SessionEndpoint("get_resolved_names", session_id)
\* GET /api/ai-processed-cells/{session_id}/{sheet_name}
GetAIProcessedCells ==
    \E session_id \in SessionIds : SessionEndpoint("get_ai_processed_cells", session_id)
\* GET /api/debug-screenshot/{session_id}/{sheet_name}
DebugScreenshot ==
    \E session_id \in SessionIds : SessionEndpoint("debug_screenshot", session_id)

\* sheet_name in session_data["sheets"]
InSheets(session_data, sheet_name) == InSeq(session_data.sheets, sheet_name)

\* The naming configuration left out
NotConfigured(configs, session_id, sheet_name, column) == configs
\* naming_configs[session_id][sheet_name] = column_letter.upper(), in a new
\* dict when the session has none
Configured(configs, session_id, sheet_name, column) ==
    Put(configs, session_id, Put(Get(configs, session_id), sheet_name, upper(column)))

\* POST /api/configure-sheet-naming/{session_id}/{sheet_name}/{column_letter}
configure_sheet_naming(session_id, sheet_name, column_letter) ==
    /\ ~LoopBusy(loop)
    /\ IF session_id \notin DOMAIN sessions
       THEN /\ response' = Respond("configure_sheet_naming", session_id, 404)
            /\ UNCHANGED naming_configs
       ELSE IF ~InSheets(sessions[session_id], sheet_name)
       THEN /\ response' = Respond("configure_sheet_naming", session_id, 400)
            /\ UNCHANGED naming_configs
       ELSE /\ naming_configs' = Configured(naming_configs, session_id, sheet_name,
                                            column_letter)
            /\ response' = Respond("configure_sheet_naming", session_id, 200)
    /\ UNCHANGED <<sessions, ai_processed_cells, manual_ai_edits, uploads, issued,
                   loop, deleted>>
    /\ UNCHANGED analysis
ConfigureSheetNaming ==
    \E session_id \in SessionIds, sheet_name \in SheetNames :
        configure_sheet_naming(session_id, sheet_name, <<"a">>)

\* manual_ai_edits[session_id][sheet_name][cell_address] = manual_name, in new
\* dicts where the session or the sheet has none
Edited(edits, session_id, sheet_name, cell_address, manual_name) ==
    Put(edits, session_id,
        Put(Get(edits, session_id), sheet_name,
            Put(Get(Get(edits, session_id), sheet_name), cell_address, manual_name)))

\* POST /api/mark-manual-edit/{session_id}/{sheet_name}/{cell_address}: the
\* sheet name is not validated
mark_manual_edit(session_id, sheet_name, cell_address, manual_name) ==
    /\ ~LoopBusy(loop)
    /\ IF session_id \notin DOMAIN sessions
       THEN /\ response' = Respond("mark_manual_edit", session_id, 404)
            /\ UNCHANGED manual_ai_edits
       ELSE /\ manual_ai_edits' = Edited(manual_ai_edits, session_id, sheet_name,
                                         cell_address, manual_name)
            /\ response' = Respond("mark_manual_edit", session_id, 200)
    /\ UNCHANGED <<sessions, naming_configs, ai_processed_cells, uploads, issued,
                   loop, deleted>>
    /\ UNCHANGED analysis
MarkManualEdit ==
    \E session_id \in SessionIds : mark_manual_edit(session_id, S1, BareCellRef, "name")

\* The cells of the request that are neither AI processed nor manually
\* edited under the sheet name of the URL
Unprocessed(session_id, sheet_name, cells) ==
    SelectSeq(cells, LAMBDA cell_ref :
        /\ cell_ref \notin DOMAIN Get(Get(ai_processed_cells, session_id), sheet_name)
        /\ cell_ref \notin DOMAIN Get(Get(manual_ai_edits, session_id), sheet_name))

\* '!' in cell_ref
HasSheetPart(cell_ref) == InSeq(cell_ref, "!")
\* cell_ref.split('!', 1)[0]
SheetPart(cell_ref) ==
    SubSeq(cell_ref, 1, (CHOOSE k \in 1..Len(cell_ref) :
                            cell_ref[k] = "!" /\ \A j \in 1..(k - 1) : cell_ref[j] # "!") - 1)

\* The loop over batch_result.results.items(): each result is stored under
\* the sheet of its cell reference, or under final_sheet_name when the
\* reference names no sheet
RECURSIVE StoreResults(_, _, _, _)
StoreResults(by_sheet, final_sheet_name, cells, status) ==
    IF cells = <<>> THEN by_sheet
    ELSE LET cell_ref == Head(cells)
             result_sheet_name == IF HasSheetPart(cell_ref) THEN SheetPart(cell_ref)
                                  ELSE final_sheet_name
         IN  StoreResults(Put(by_sheet, result_sheet_name,
                              Put(Get(by_sheet, result_sheet_name), cell_ref, status)),
                          final_sheet_name, Tail(cells), status)

\* POST /api/generate-ai-names/{session_id}/{sheet_name}, up to
\* batch_result = await ai_naming_service.generate_batch_names(...)
generate_ai_names(session_id, sheet_name, cells) ==
    /\ loop = Idle
    /\ IF session_id \notin DOMAIN sessions
       THEN /\ response' = Respond("generate_ai_names", session_id, 404)
            /\ UNCHANGED loop
       ELSE IF ~InSheets(sessions[session_id], sheet_name)
       THEN /\ response' = Respond("generate_ai_names", session_id, 400)
            /\ UNCHANGED loop
       ELSE \E unprocessed_cells \in {Unprocessed(session_id, sheet_name, cells)} :
            IF unprocessed_cells = <<>>
            THEN /\ response' = Respond("generate_ai_names", session_id, 200)
                 /\ UNCHANGED loop
            ELSE /\ loop' = [handler |-> "generate_ai_names",
                             session_id |-> session_id,
                             final_sheet_name |-> sheet_name,
                             unprocessed_cells |-> unprocessed_cells]
                 /\ UNCHANGED response
    /\ UNCHANGED <<sessions, naming_configs, ai_processed_cells, manual_ai_edits,
                   uploads, issued, deleted>>
    /\ UNCHANGED analysis
GenerateAINames ==
    \E session_id \in SessionIds, sheet_name \in SheetNames,
       cells \in {<<>>, <<SheetCellRef>>} :
        generate_ai_names(session_id, sheet_name, cells)

\* generate_batch_names returned a result for every cell (a name, or the
\* status "failed"); generate_ai_names stores them and returns
GenerateAINamesStores ==
    /\ loop.handler = "generate_ai_names"
    /\ \E status \in {"result"} :
          ai_processed_cells' =
              Put(ai_processed_cells, loop.session_id,
                  StoreResults(Get(ai_processed_cells, loop.session_id),
                               loop.final_sheet_name, loop.unprocessed_cells, status))
    /\ response' = Respond("generate_ai_names", loop.session_id, 200)
    /\ loop' = Idle
    /\ UNCHANGED <<sessions, naming_configs, manual_ai_edits, uploads, issued, deleted>>
    /\ UNCHANGED analysis

\* The entry of the session left in place
NotDeleted(d, session_id) == d
\* if session_id in d: del d[session_id]
Delete(d, session_id) == Without(d, {session_id})

\* DELETE /api/sessions/{session_id}: shutil.rmtree(session_dir) raises on a
\* locked directory, before anything is removed from memory
cleanup_session(session_id) ==
    /\ ~LoopBusy(loop)
    /\ IF session_id \notin DOMAIN sessions
       THEN /\ response' = Respond("cleanup_session", session_id, 404)
            /\ UNCHANGED <<sessions, naming_configs, ai_processed_cells,
                           manual_ai_edits, uploads, deleted>>
       ELSE \/ /\ session_id \in DOMAIN uploads
               /\ response' = Respond("cleanup_session", session_id, 500)
               /\ UNCHANGED <<sessions, naming_configs, ai_processed_cells,
                              manual_ai_edits, uploads, deleted>>
            \/ /\ uploads' = Without(uploads, {session_id})
               /\ sessions' = Without(sessions, {session_id})
               /\ naming_configs' = Delete(naming_configs, session_id)
               /\ ai_processed_cells' = Delete(ai_processed_cells, session_id)
               /\ manual_ai_edits' = Delete(manual_ai_edits, session_id)
               /\ deleted' = deleted \cup {session_id}
               /\ response' = Respond("cleanup_session", session_id, 200)
    /\ UNCHANGED <<issued, loop>>
    /\ UNCHANGED analysis
CleanupSession == \E session_id \in SessionIds : cleanup_session(session_id)

\* cleanup_on_exit, registered with atexit: the directories of the sessions
\* are removed where they can be, the four dictionaries are cleared
CleanupOnExit ==
    /\ loop # Exited
    /\ \E locked \in SUBSET (DOMAIN sessions \cap DOMAIN uploads) :
          uploads' = Without(uploads, DOMAIN sessions \ locked)
    /\ sessions' = EmptyDict /\ naming_configs' = EmptyDict
    /\ ai_processed_cells' = EmptyDict /\ manual_ai_edits' = EmptyDict
    /\ loop' = Exited
    /\ UNCHANGED <<issued, response, deleted>>
    /\ UNCHANGED analysis

ServerNext ==
    \/ TimePasses
    \/ UploadExcelFile
    \/ ForceCleanup
    \/ GetSheets
    \/ AnalyzeCell
    \/ DrillDownCell
    \/ ExpandDependency
    \/ GetRowValuesEndpoint
    \/ GetNamingConfig
    \/ GetResolvedNames
    \/ GetAIProcessedCells
    \/ DebugScreenshot
    \/ ConfigureSheetNaming
    \/ MarkManualEdit
    \/ GenerateAINames
    \/ GenerateAINamesStores
    \/ CleanupSession
    \/ CleanupOnExit

ServerSpec == ServerInit /\ [][ServerNext]_vars

\* value, formula of get_cell_value_and_formula(file_path, "S1", "A1"): None,
\* None when load_workbook raises because the file is gone
CellValueAndFormula(dirs, file_path) ==
    IF file_path \notin DOMAIN dirs THEN <<None, None>>
    ELSE LET cell == CellAt(dirs[file_path].workbook, S1, A \o R1)
         IN  <<IF IsIntOrFloat(cell.cached) THEN <<cell.cached.v>> ELSE None,
               IF cell.data_type = "f" /\ cell.formula # <<>> THEN cell.formula
               ELSE None>>

\* C23: no step changes what read_cell returns for a session that is known
\* before and after the step (the step is then an operation on another
\* session, an upload with its cleanup pass, or the passing of time), and
\* the workbook file of such a session is still in place after the step.
NonInterference ==
    [][\A id \in DOMAIN sessions \cap DOMAIN sessions' :
          /\ CellValueAndFormula(uploads', sessions'[id].file_path)
                = CellValueAndFormula(uploads, sessions[id].file_path)
          /\ sessions'[id].file_path \in DOMAIN uploads']_vars

\* C26: every session id with an entry in naming_configs, ai_processed_cells
\* or manual_ai_edits has an entry in sessions, and the session of a
\* generate_ai_names that waits for the AI service is still there: no delete
\* completes in the meantime, so the results are stored under a known id.
PerSessionDataHasSession ==
    /\ DOMAIN naming_configs \subseteq DOMAIN sessions
    /\ DOMAIN ai_processed_cells \subseteq DOMAIN sessions
    /\ DOMAIN manual_ai_edits \subseteq DOMAIN sessions
    /\ loop.handler = "generate_ai_names" => loop.session_id \in DOMAIN sessions

\* The second session has a naming column, AI results and a manual edit
\* after the first session was deleted
DataStoredAfterDelete ==
    /\ 1 \in deleted
    /\ 2 \in DOMAIN naming_configs /\ 2 \in DOMAIN ai_processed_cells
    /\ 2 \in DOMAIN manual_ai_edits

\* A request to one of the session endpoints with this session id; the nine
\* endpoints that store nothing are all of the form SessionEndpoint
SessionRequest(session_id) ==
    \/ SessionEndpoint("get_sheets", session_id)
    \/ \E sheet_name \in SheetNames :
          configure_sheet_naming(session_id, sheet_name, <<"a">>)
    \/ mark_manual_edit(session_id, S1, BareCellRef, "name")
    \/ \E sheet_name \in SheetNames, cells \in {<<>>, <<SheetCellRef>>} :
          generate_ai_names(session_id, sheet_name, cells)
    \/ cleanup_session(session_id)

\* Nothing is stored for the ids whose delete returned
NothingLeftOfDeleted ==
    \A id \in deleted :
        /\ id \notin DOMAIN sessions /\ id \notin DOMAIN naming_configs
        /\ id \notin DOMAIN ai_processed_cells /\ id \notin DOMAIN manual_ai_edits

\* The handler has returned: none is waiting for the AI service
Answered == loop.handler # "generate_ai_names"

\* What the session endpoints can answer: for an id whose delete returned,
\* nothing but 404; for a registered id, never 404
Answers ==
    /\ \A id \in deleted :
          ~ENABLED (SessionRequest(id) /\ ~(Answered' /\ response'.status_code = 404))
    /\ \A id \in DOMAIN sessions :
          ~ENABLED (SessionRequest(id) /\ Answered' /\ response'.status_code = 404)

LifecycleStep ==
    /\ \A id \in DOMAIN sessions \ DOMAIN sessions' : id \in deleted' \/ loop' = Exited
    /\ \A id \in deleted' \ deleted : cleanup_session(id) /\ response'.status_code = 200
    /\ \A id \in DOMAIN sessions' \ DOMAIN sessions :
          /\ id = issued' /\ issued' = issued + 1 /\ response'.status_code = 200
          /\ UploadExcelFile
    /\ issued' # issued =>
          (response'.status_code = 200 <=> issued' \in DOMAIN sessions')

\* C22: a session is registered by the upload that returns 200 and by no
\* other upload; it leaves sessions only by a delete of its id that returns
\* 200 or at process exit; a request with a registered id is never answered
\* 404; once the delete of an id has returned, every session endpoint
\* answers 404 for it and no naming configuration, AI result or manual edit
\* is stored for it.
SessionLifecycle == [](NothingLeftOfDeleted /\ Answers) /\ [][LifecycleStep]_vars

\* The first session was deleted, the second is registered, and the last
\* request, which named the first, was answered 404
DeletedIdRejected ==
    /\ 1 \in deleted /\ 2 \in DOMAIN sessions /\ issued = 2
    /\ response.status_code = 404

=============================================================================
